---- MODULE Spec2Model ----
(***************************************************************************)
(* Model of the identity-mapping cache of src/src/IdMapper/idmapper_cache.c *)
(* (five hash tables, the string-keyed and numeric-keyed mapping engines,   *)
(* the propagation wrappers) over an explicit heap (abstract_mem.h).        *)
(*                                                                         *)
(* A C function is an operator from the process state M it runs on (the     *)
(* tables, the heap, the faults it will meet) to a record holding the       *)
(* process state it leaves and what it returns.  A function with several    *)
(* exits is written as a chain of operators, one per stretch of its body,   *)
(* each handing its locals to the next.                                     *)
(***************************************************************************)
EXTENDS Integers, Sequences, FiniteSets, TLC

\* ------------------------------------------------------------------ bounds
\* number of heap cells the allocator can hand out
MaxHeap == 6
\* last value of the wall clock time(NULL)
MaxTime == 2
\* nfs_param.core_param.idmap_cache_timeout, a positive configured duration
IdmapCacheTimeout == 1
\* number of worker threads of the interleaved specification
NThreads == 2
\* number of heap cells of the process that loads a configuration file
LoadHeap == 8
\* largest number of entries in a block of the configuration file
MaxBlock == 2

\* ------------------------------------------------------- values and tables
NULL == 0

\* principal names, as strings of character codes; no C string holds code 0
NameSeq == << <<1>>, <<1, 2>> >>
IdSeq == <<0, 1>>
Names == {NameSeq[i] : i \in DOMAIN NameSeq}
Ids == {IdSeq[i] : i \in DOMAIN IdSeq}
\* capacities of the buffer a caller hands to namemap_get
BufSizes == {2, 3}
Addrs == 1..MaxHeap
Times == 0..MaxTime
Threads == 1..NThreads

TableSeq == <<"ht_pwnam", "ht_pwuid", "ht_grnam", "ht_grgid">>
FwdTables == {"ht_pwnam", "ht_grnam"}
RevTables == {"ht_pwuid", "ht_grgid"}
Tables == FwdTables \cup RevTables \cup {"ht_uidgid"}

\* a null hash_table_t pointer and a null char pointer
NullTable == "NULL"
NullStr == <<0>>

VARIABLES ht, heap, now, aborted, badfree, pc, loc

vars == <<ht, heap, now, aborted, badfree, pc, loc>>

\* ------------------------------------------------------------------- heap
FreeCell == [kind |-> "free", s |-> <<>>, timestamp |-> 0, u |-> 0]

StrCell(s) == [kind |-> "str", s |-> s, timestamp |-> 0, u |-> 0]

\* struct idmap_val: a timestamp and the union of real_id and name
idmap_val(t, u) == [kind |-> "val", s |-> <<>>, timestamp |-> t, u |-> u]

FreeAddrs(M) == {a \in DOMAIN M.heap : M.heap[a].kind = "free"}

LowestFree(M) == CHOOSE a \in FreeAddrs(M) : \A b \in FreeAddrs(M) : a <= b

\* malloc(3)/strdup(3): NULL when the allocation fails (M.oom counts down to
\* the failing allocation; exhausted records that the cells of the model ran
\* out instead), else the address of a fresh cell holding `cell`
malloc(M, cell) ==
    IF M.oom = 1 \/ FreeAddrs(M) = {}
    THEN [M |-> [M EXCEPT !.oom = 0, !.exhausted = (M.oom # 1)], p |-> NULL]
    ELSE [M |-> [M EXCEPT !.heap[LowestFree(M)] = cell,
                          !.oom = IF @ = 0 THEN 0 ELSE @ - 1,
                          !.nalloc = @ + 1],
          p |-> LowestFree(M)]

\* the test `if (p == NULL) abort();` on what malloc returned
AbortIfNull(r) ==
    IF r.p = NULL THEN [M |-> [r.M EXCEPT !.aborted = TRUE], p |-> NULL] ELSE r

gsh_malloc(M, cell) == AbortIfNull(malloc(M, cell))

gsh_strdup(M, s) == AbortIfNull(malloc(M, StrCell(s)))

\* free(3): free(NULL) does nothing; freeing a cell that is not allocated is
\* recorded in badfree
gsh_free(M, p) ==
    IF p = NULL THEN M
    ELSE IF M.heap[p].kind = "free" THEN [M EXCEPT !.badfree = TRUE]
    ELSE [M EXCEPT !.heap[p] = FreeCell, !.nfree = @ + 1]

\* ------------------------------------------------- key/value store (HashTable)
compare_name(s1, s2) == IF s1 = s2 THEN 0 ELSE 1

compare_id(xid1, xid2) == IF xid1 = xid2 THEN 0 ELSE 1

\* the entries of table tbl whose stored key compares equal to key
Lookup(M, tbl, key) ==
    IF tbl \in FwdTables
    THEN {e \in M.ht[tbl] : compare_name(M.heap[e.pkey].s, key) = 0}
    ELSE {e \in M.ht[tbl] : compare_id(e.pkey, key) = 0}

Stored(M, tbl, key) == CHOOSE e \in Lookup(M, tbl, key) : TRUE

HashTable_Get(M, tbl, key) ==
    IF Lookup(M, tbl, key) = {}
    THEN [rc |-> "HASHTABLE_ERROR_NO_SUCH_KEY", val |-> NULL]
    ELSE [rc |-> "HASHTABLE_SUCCESS", val |-> Stored(M, tbl, key).pval]

\* entry e leaves table tbl; its stored key and value are handed back
Unlink(M, tbl, e) ==
    [M |-> [M EXCEPT !.ht[tbl] = @ \ {e}], rc |-> "HASHTABLE_SUCCESS",
     key |-> e.pkey, val |-> e.pval]

HashTable_Get_and_Del(M, tbl, key) ==
    IF Lookup(M, tbl, key) = {}
    THEN [M |-> M, rc |-> "HASHTABLE_ERROR_NO_SUCH_KEY", key |-> NULL, val |-> NULL]
    ELSE Unlink(M, tbl, Stored(M, tbl, key))

\* HashTable_Del(ht, key, &stored_key, NULL): hands back the stored key only
HashTable_Del(M, tbl, key) ==
    IF Lookup(M, tbl, key) = {}
    THEN [M |-> M, rc |-> "HASHTABLE_ERROR_NO_SUCH_KEY", key |-> NULL, val |-> NULL]
    ELSE [Unlink(M, tbl, Stored(M, tbl, key)) EXCEPT !.val = NULL]

\* the store's insert of entry e for key, M1 being M with the fault counted
Insert(M1, tbl, old, e, how) ==
    IF old # {}
    THEN IF how = "HASHTABLE_SET_HOW_SET_NO_OVERWRITE"
         THEN [M |-> M1, rc |-> "HASHTABLE_ERROR_KEY_ALREADY_EXISTS"]
         ELSE [M |-> [M1 EXCEPT !.ht[tbl] = (@ \ old) \cup {e}], rc |-> "HASHTABLE_SUCCESS"]
    ELSE [M |-> [M1 EXCEPT !.ht[tbl] = @ \cup {e}], rc |-> "HASHTABLE_SUCCESS"]

\* the n-th store insert of a call fails inside the store when M.hterr = n
HashTable_Test_And_Set(M, tbl, buffkey, buffval, how) ==
    IF M.hterr = 1
    THEN [M |-> [M EXCEPT !.hterr = 0], rc |-> "HASHTABLE_INSERT_MALLOC_ERROR"]
    ELSE Insert([M EXCEPT !.hterr = IF @ = 0 THEN 0 ELSE @ - 1], tbl,
                Lookup(M, tbl, IF tbl \in FwdTables THEN M.heap[buffkey].s ELSE buffkey),
                [pkey |-> buffkey, pval |-> buffval], how)

\* --------------------------------------------- string-keyed engine (name -> id)
\* the locals of idmap_add and namemap_add at a jump: to the label found, to
\* the label err, or out of the process (abort)
Goto(M, buffkey, local_val, status, jump) ==
    [M |-> M, buffkey |-> buffkey, local_val |-> local_val, status |-> status,
     jump |-> jump]

\* idmap_add after gsh_malloc returned v, the key being duplicated at buffkey
idmap_add_new_val(buffkey, v) ==
    IF v.M.aborted THEN Goto(v.M, buffkey, NULL, "ABORT", "abort")
    ELSE IF v.p = NULL
    THEN Goto(v.M, buffkey, NULL, "ID_MAPPER_INSERT_MALLOC_ERROR", "err")
    ELSE Goto(v.M, buffkey, v.p, "ID_MAPPER_SUCCESS", "found")

\* idmap_add_new_key leaving real_id of the new idmap_val unset
idmap_add_new_key_noid(k, val, t) ==
    IF k.M.aborted THEN Goto(k.M, NULL, NULL, "ABORT", "abort")
    ELSE IF k.p = NULL
    THEN Goto(k.M, NULL, NULL, "ID_MAPPER_INSERT_MALLOC_ERROR", "err")
    ELSE idmap_add_new_val(k.p, gsh_malloc(k.M, idmap_val(t, 0)))

\* idmap_add after gsh_strdup returned k
idmap_add_new_key(k, val, t) ==
    IF k.M.aborted THEN Goto(k.M, NULL, NULL, "ABORT", "abort")
    ELSE IF k.p = NULL
    THEN Goto(k.M, NULL, NULL, "ID_MAPPER_INSERT_MALLOC_ERROR", "err")
    ELSE idmap_add_new_val(k.p, gsh_malloc(k.M, idmap_val(t, val)))

\* the new insert of idmap_add: the key is duplicated, an idmap_val allocated
idmap_add_new(M, key, val, t) == idmap_add_new_key(gsh_strdup(M, key), val, t)

\* idmap_add_reuse leaving the timestamp of the reused entry as it was
idmap_add_reuse_stale(gd, key, val, t) ==
    IF gd.rc = "HASHTABLE_SUCCESS"
    THEN Goto([gd.M EXCEPT !.heap[gd.val].u = val],
              gd.key, gd.val, "ID_MAPPER_SUCCESS", "found")
    ELSE idmap_add_new(gd.M, key, val, t)

\* the overwrite branch of idmap_add after HashTable_Get_and_Del returned gd:
\* the stored entry is updated in place and reused with its stored key
idmap_add_reuse(gd, key, val, t) ==
    IF gd.rc = "HASHTABLE_SUCCESS"
    THEN Goto([gd.M EXCEPT !.heap[gd.val].u = val, !.heap[gd.val].timestamp = t],
              gd.key, gd.val, "ID_MAPPER_SUCCESS", "found")
    ELSE idmap_add_new(gd.M, key, val, t)

\* idmap_add up to the label found
idmap_add_lookup(M, tbl, key, val, overwrite, t) ==
    IF overwrite
    THEN idmap_add_reuse(HashTable_Get_and_Del(M, tbl, key), key, val, t)
    ELSE idmap_add_new(M, key, val, t)

\* the label err of idmap_add
idmap_add_err(M, buffkey, local_val) == gsh_free(gsh_free(M, buffkey), local_val)

\* idmap_add_rc returning on HASHTABLE_ERROR_KEY_ALREADY_EXISTS without the
\* jump to err
idmap_add_rc_leak(r, buffkey, local_val) ==
    IF r.rc = "HASHTABLE_ERROR_KEY_ALREADY_EXISTS"
    THEN [M |-> r.M, status |-> "ID_MAPPER_SUCCESS"]
    ELSE IF r.rc # "HASHTABLE_SUCCESS"
    THEN [M |-> idmap_add_err(r.M, buffkey, local_val),
          status |-> "ID_MAPPER_INSERT_MALLOC_ERROR"]
    ELSE [M |-> r.M, status |-> "ID_MAPPER_SUCCESS"]

\* idmap_add_rc reporting a lost insert as a failure
idmap_add_rc_exists_error(r, buffkey, local_val) ==
    IF r.rc # "HASHTABLE_SUCCESS"
    THEN [M |-> idmap_add_err(r.M, buffkey, local_val),
          status |-> "ID_MAPPER_INSERT_MALLOC_ERROR"]
    ELSE [M |-> r.M, status |-> "ID_MAPPER_SUCCESS"]

\* idmap_add after HashTable_Test_And_Set returned r
idmap_add_rc(r, buffkey, local_val) ==
    IF r.rc = "HASHTABLE_ERROR_KEY_ALREADY_EXISTS"
    THEN [M |-> idmap_add_err(r.M, buffkey, local_val), status |-> "ID_MAPPER_SUCCESS"]
    ELSE IF r.rc # "HASHTABLE_SUCCESS"
    THEN [M |-> idmap_add_err(r.M, buffkey, local_val),
          status |-> "ID_MAPPER_INSERT_MALLOC_ERROR"]
    ELSE [M |-> r.M, status |-> "ID_MAPPER_SUCCESS"]

\* idmap_add_set asking the store to replace the entry of a key it holds
idmap_add_set_overwrite(M, tbl, buffkey, local_val) ==
    idmap_add_rc(HashTable_Test_And_Set(M, tbl, buffkey, local_val,
                                        "HASHTABLE_SET_HOW_SET_OVERWRITE"),
                 buffkey, local_val)

\* idmap_add from the label found on
idmap_add_set(M, tbl, buffkey, local_val) ==
    idmap_add_rc(HashTable_Test_And_Set(M, tbl, buffkey, local_val,
                                        "HASHTABLE_SET_HOW_SET_NO_OVERWRITE"),
                 buffkey, local_val)

\* idmap_add at the jump a
idmap_add_at(a, tbl) ==
    IF a.jump = "abort" THEN [M |-> a.M, status |-> a.status]
    ELSE IF a.jump = "err"
    THEN [M |-> idmap_add_err(a.M, a.buffkey, a.local_val), status |-> a.status]
    ELSE idmap_add_set(a.M, tbl, a.buffkey, a.local_val)

\* idmap_add reporting a null argument as an allocation failure
idmap_add_null_as_malloc_error(M, tbl, key, val, overwrite, t) ==
    IF tbl = NullTable \/ key = NullStr
    THEN [M |-> M, status |-> "ID_MAPPER_INSERT_MALLOC_ERROR"]
    ELSE idmap_add_at(idmap_add_lookup(M, tbl, key, val, overwrite, t), tbl)

idmap_add(M, tbl, key, val, overwrite, t) ==
    IF tbl = NullTable \/ key = NullStr
    THEN [M |-> M, status |-> "ID_MAPPER_INVALID_ARGUMENT"]
    ELSE idmap_add_at(idmap_add_lookup(M, tbl, key, val, overwrite, t), tbl)

\* Fresh with the comparison turned round
Fresh_inverted(entry, t) == entry.timestamp < t - IdmapCacheTimeout

\* the freshness test of idmap_get and namemap_get
Fresh(entry, t) == entry.timestamp > t - IdmapCacheTimeout

\* idmap_get_entry giving an expired entry a new timestamp
idmap_get_entry_touch(M, g, t) ==
    IF g.rc = "HASHTABLE_SUCCESS"
    THEN IF Fresh(M.heap[g.val], t)
         THEN [M |-> M, status |-> "ID_MAPPER_SUCCESS", val |-> M.heap[g.val].u]
         ELSE [M |-> [M EXCEPT !.heap[g.val].timestamp = t],
               status |-> "ID_MAPPER_CACHE_EXPIRE", val |-> -1]
    ELSE [M |-> M, status |-> "ID_MAPPER_NOT_FOUND", val |-> -1]

\* idmap_get after HashTable_Get returned g; val = -1 stands for a *pval the
\* call did not write
idmap_get_entry(M, g, t) ==
    IF g.rc = "HASHTABLE_SUCCESS"
    THEN IF Fresh(M.heap[g.val], t)
         THEN [M |-> M, status |-> "ID_MAPPER_SUCCESS", val |-> M.heap[g.val].u]
         ELSE [M |-> M, status |-> "ID_MAPPER_CACHE_EXPIRE", val |-> -1]
    ELSE [M |-> M, status |-> "ID_MAPPER_NOT_FOUND", val |-> -1]

idmap_get(M, tbl, key, t) ==
    IF tbl = NullTable \/ key = NullStr
    THEN [M |-> M, status |-> "ID_MAPPER_INVALID_ARGUMENT", val |-> -1]
    ELSE idmap_get_entry(M, HashTable_Get(M, tbl, key), t)

\* idmap_remove_key reporting success for a key the table did not hold
idmap_remove_key_ok(d) ==
    IF d.rc = "HASHTABLE_SUCCESS"
    THEN [M |-> gsh_free(d.M, d.key), status |-> "ID_MAPPER_SUCCESS"]
    ELSE [M |-> d.M, status |-> "ID_MAPPER_SUCCESS"]

\* idmap_remove after HashTable_Del returned d
idmap_remove_key(d) ==
    IF d.rc = "HASHTABLE_SUCCESS"
    THEN [M |-> gsh_free(d.M, d.key), status |-> "ID_MAPPER_SUCCESS"]
    ELSE [M |-> d.M, status |-> "ID_MAPPER_NOT_FOUND"]

idmap_remove(M, tbl, key) ==
    IF tbl = NullTable \/ key = NullStr
    THEN [M |-> M, status |-> "ID_MAPPER_INVALID_ARGUMENT"]
    ELSE idmap_remove_key(HashTable_Del(M, tbl, key))

\* -------------------------------------------- numeric-keyed engine (id -> name)
\* the name string an idmap_val of a reverse table points to
NameOf(M, p) == M.heap[M.heap[p].u].s

\* namemap_add after gsh_strdup returned n for the new idmap_val at local_val
namemap_add_new_name(key, local_val, n, t) ==
    IF n.M.aborted THEN Goto(n.M, key, local_val, "ABORT", "abort")
    ELSE IF n.p = NULL
    THEN Goto(n.M, key, local_val, "ID_MAPPER_INSERT_MALLOC_ERROR", "err")
    ELSE Goto([n.M EXCEPT !.heap[local_val].u = n.p, !.heap[local_val].timestamp = t],
              key, local_val, "ID_MAPPER_SUCCESS", "found")

\* namemap_add after gsh_malloc returned v
namemap_add_new_val(key, v, val, t) ==
    IF v.M.aborted THEN Goto(v.M, key, NULL, "ABORT", "abort")
    ELSE IF v.p = NULL
    THEN Goto(v.M, key, NULL, "ID_MAPPER_INSERT_MALLOC_ERROR", "err")
    ELSE namemap_add_new_name(key, v.p, gsh_strdup(v.M, val), t)

\* the new insert of namemap_add: an idmap_val is allocated, the name duplicated
namemap_add_new(M, key, val, t) ==
    namemap_add_new_val(key, gsh_malloc(M, idmap_val(0, NULL)), val, t)

\* the overwrite branch of namemap_add after the old name was freed and
\* gsh_strdup returned n for the new one
namemap_add_rename(gd, n, t) ==
    IF n.M.aborted THEN Goto(n.M, gd.key, gd.val, "ABORT", "abort")
    ELSE IF n.p = NULL
    THEN Goto([n.M EXCEPT !.heap[gd.val].u = NULL], gd.key, gd.val,
              "ID_MAPPER_INSERT_MALLOC_ERROR", "err")
    ELSE Goto([n.M EXCEPT !.heap[gd.val].u = n.p, !.heap[gd.val].timestamp = t],
              gd.key, gd.val, "ID_MAPPER_SUCCESS", "found")

\* namemap_add_reuse duplicating the name whether it changed or not
namemap_add_reuse_always_dup(gd, key, val, t) ==
    IF gd.rc = "HASHTABLE_SUCCESS"
    THEN namemap_add_rename(gd, gsh_strdup(gsh_free(gd.M, gd.M.heap[gd.val].u), val), t)
    ELSE namemap_add_new(gd.M, key, val, t)

\* the overwrite branch of namemap_add after HashTable_Get_and_Del returned gd
namemap_add_reuse(gd, key, val, t) ==
    IF gd.rc = "HASHTABLE_SUCCESS"
    THEN IF NameOf(gd.M, gd.val) # val
         THEN namemap_add_rename(gd, gsh_strdup(gsh_free(gd.M, gd.M.heap[gd.val].u), val), t)
         ELSE Goto([gd.M EXCEPT !.heap[gd.val].timestamp = t], gd.key, gd.val,
                   "ID_MAPPER_SUCCESS", "found")
    ELSE namemap_add_new(gd.M, key, val, t)

\* namemap_add up to the label found
namemap_add_lookup(M, tbl, key, val, overwrite, t) ==
    IF overwrite
    THEN namemap_add_reuse(HashTable_Get_and_Del(M, tbl, key), key, val, t)
    ELSE namemap_add_new(M, key, val, t)

\* the label err of namemap_add
namemap_add_err(M, local_val) ==
    IF local_val = NULL THEN M
    ELSE gsh_free(gsh_free(M, M.heap[local_val].u), local_val)

\* namemap_add after HashTable_Test_And_Set returned r
namemap_add_rc(r, local_val) ==
    IF r.rc = "HASHTABLE_ERROR_KEY_ALREADY_EXISTS"
    THEN [M |-> namemap_add_err(r.M, local_val), status |-> "ID_MAPPER_SUCCESS"]
    ELSE IF r.rc # "HASHTABLE_SUCCESS"
    THEN [M |-> namemap_add_err(r.M, local_val),
          status |-> "ID_MAPPER_INSERT_MALLOC_ERROR"]
    ELSE [M |-> r.M, status |-> "ID_MAPPER_SUCCESS"]

\* namemap_add from the label found on
namemap_add_set(M, tbl, buffkey, local_val) ==
    namemap_add_rc(HashTable_Test_And_Set(M, tbl, buffkey, local_val,
                                          "HASHTABLE_SET_HOW_SET_NO_OVERWRITE"),
                   local_val)

\* namemap_add at the jump a
namemap_add_at(a, tbl) ==
    IF a.jump = "abort" THEN [M |-> a.M, status |-> a.status]
    ELSE IF a.jump = "err"
    THEN [M |-> namemap_add_err(a.M, a.local_val), status |-> a.status]
    ELSE namemap_add_set(a.M, tbl, a.buffkey, a.local_val)

namemap_add(M, tbl, key, val, overwrite, t) ==
    IF tbl = NullTable \/ val = NullStr
    THEN [M |-> M, status |-> "ID_MAPPER_INVALID_ARGUMENT"]
    ELSE namemap_add_at(namemap_add_lookup(M, tbl, key, val, overwrite, t), tbl)

\* strmaxcpy(dest, src, size): the copy is cut to what a buffer of size bytes
\* holds with its terminator
strmaxcpy(src, size) ==
    IF Len(src) < size THEN src ELSE SubSeq(src, 1, size - 1)

\* namemap_get after HashTable_Get returned g; val = NullStr stands for a
\* buffer the call did not write
namemap_get_entry(M, g, size, t) ==
    IF g.rc = "HASHTABLE_SUCCESS"
    THEN IF Fresh(M.heap[g.val], t)
         THEN [M |-> M, status |-> "ID_MAPPER_SUCCESS",
               val |-> strmaxcpy(NameOf(M, g.val), size)]
         ELSE [M |-> M, status |-> "ID_MAPPER_CACHE_EXPIRE", val |-> NullStr]
    ELSE [M |-> M, status |-> "ID_MAPPER_NOT_FOUND", val |-> NullStr]

\* namemap_get answering for id 0 as uidgidmap_get does for uid 0
namemap_get_root(M, tbl, key, size, t) ==
    IF tbl = NullTable \/ size = NULL
    THEN [M |-> M, status |-> "ID_MAPPER_INVALID_ARGUMENT", val |-> NullStr]
    ELSE IF key = 0 /\ Lookup(M, tbl, key) = {}
    THEN [M |-> M, status |-> "ID_MAPPER_SUCCESS", val |-> <<>>]
    ELSE namemap_get_entry(M, HashTable_Get(M, tbl, key), size, t)

\* the buffer pval and its capacity are passed as one: size is the capacity
\* of the buffer, and NULL when pval is a null pointer
namemap_get(M, tbl, key, size, t) ==
    IF tbl = NullTable \/ size = NULL
    THEN [M |-> M, status |-> "ID_MAPPER_INVALID_ARGUMENT", val |-> NullStr]
    ELSE namemap_get_entry(M, HashTable_Get(M, tbl, key), size, t)

\* namemap_remove after HashTable_Del returned d
namemap_remove_rc(d) ==
    IF d.rc = "HASHTABLE_SUCCESS"
    THEN [M |-> d.M, status |-> "ID_MAPPER_SUCCESS"]
    ELSE [M |-> d.M, status |-> "ID_MAPPER_NOT_FOUND"]

namemap_remove(M, tbl, key) ==
    IF tbl = NullTable
    THEN [M |-> M, status |-> "ID_MAPPER_INVALID_ARGUMENT"]
    ELSE namemap_remove_rc(HashTable_Del(M, tbl, key))

\* ------------------------------------------------------ direct map (uid -> gid)
\* uidgidmap_add after HashTable_Test_And_Set returned r
uidgidmap_add_rc(r) ==
    IF r.rc # "HASHTABLE_SUCCESS" /\ r.rc # "HASHTABLE_ERROR_KEY_ALREADY_EXISTS"
    THEN [M |-> r.M, status |-> "ID_MAPPER_INSERT_MALLOC_ERROR"]
    ELSE [M |-> r.M, status |-> "ID_MAPPER_SUCCESS"]

\* uidgidmap_add that does not replace a stored gid
uidgidmap_add_no_overwrite(M, key, value) ==
    uidgidmap_add_rc(HashTable_Test_And_Set(M, "ht_uidgid", key, value,
                                            "HASHTABLE_SET_HOW_SET_NO_OVERWRITE"))

uidgidmap_add(M, key, value) ==
    uidgidmap_add_rc(HashTable_Test_And_Set(M, "ht_uidgid", key, value,
                                            "HASHTABLE_SET_HOW_SET_OVERWRITE"))

\* uidgidmap_get_entry without the answer for uid 0
uidgidmap_get_entry_no_root(M, g, key) ==
    IF g.rc = "HASHTABLE_SUCCESS"
    THEN [M |-> M, status |-> "ID_MAPPER_SUCCESS", val |-> g.val]
    ELSE [M |-> M, status |-> "ID_MAPPER_NOT_FOUND", val |-> -1]

\* uidgidmap_get after HashTable_Get returned g
uidgidmap_get_entry(M, g, key) ==
    IF g.rc = "HASHTABLE_SUCCESS"
    THEN [M |-> M, status |-> "ID_MAPPER_SUCCESS", val |-> g.val]
    ELSE IF key = 0
    THEN [M |-> M, status |-> "ID_MAPPER_SUCCESS", val |-> 0]
    ELSE [M |-> M, status |-> "ID_MAPPER_NOT_FOUND", val |-> -1]

uidgidmap_get(M, key) == uidgidmap_get_entry(M, HashTable_Get(M, "ht_uidgid", key), key)

\* uidgidmap_remove after HashTable_Del returned d
uidgidmap_remove_rc(d) ==
    IF d.rc = "HASHTABLE_SUCCESS"
    THEN [M |-> d.M, status |-> "ID_MAPPER_SUCCESS"]
    ELSE [M |-> d.M, status |-> "ID_MAPPER_NOT_FOUND"]

uidgidmap_remove(M, key) == uidgidmap_remove_rc(HashTable_Del(M, "ht_uidgid", key))

\* uidgidmap_free: key and value are integers, nothing to free
uidgidmap_free(M, e) == M

\* idmap_free, the free_func of the reverse table: the name of the entry and
\* the entry are freed, the key is an integer
idmap_free(M, e) ==
    IF e.pval # NULL THEN gsh_free(gsh_free(M, M.heap[e.pval].u), e.pval) ELSE M

\* namemap_free leaving the key string to the store
namemap_free_entry_only(M, e) == gsh_free(M, e.pval)

\* namemap_free, the free_func of the forward table: the key string and the
\* entry are freed
namemap_free(M, e) ==
    IF e.pval # NULL THEN gsh_free(gsh_free(M, e.pkey), e.pval) ELSE gsh_free(M, e.pkey)

\* the call of the function free_func points to
CallFree(free_func, M, e) ==
    CASE free_func = "idmap_free" -> idmap_free(M, e)
      [] free_func = "namemap_free" -> namemap_free(M, e)
      [] OTHER -> uidgidmap_free(M, e)

\* free_func called on each of the entries es
RECURSIVE FreeEach(_, _, _)
FreeEach(M, es, free_func) ==
    IF es = {} THEN M
    ELSE LET e == CHOOSE x \in es : TRUE
         IN FreeEach(CallFree(free_func, M, e), es \ {e}, free_func)

\* HashTable_Delall(ht, free_func): every entry leaves the table and is
\* handed to free_func
HashTable_Delall(M, tbl, free_func) ==
    [M |-> FreeEach([M EXCEPT !.ht[tbl] = {}], M.ht[tbl], free_func),
     rc |-> "HASHTABLE_SUCCESS"]

\* uidgidmap_clear after HashTable_Delall returned d
uidgidmap_clear_rc(d) ==
    IF d.rc # "HASHTABLE_SUCCESS"
    THEN [M |-> d.M, status |-> "ID_MAPPER_FAIL"]
    ELSE [M |-> d.M, status |-> "ID_MAPPER_SUCCESS"]

uidgidmap_clear(M) ==
    uidgidmap_clear_rc(HashTable_Delall(M, "ht_uidgid", "uidgidmap_free"))

\* idmap_clear empties the uid -> name table
idmap_clear(M) == uidgidmap_clear_rc(HashTable_Delall(M, "ht_pwuid", "idmap_free"))

\* namemap_clear empties the name -> uid table
namemap_clear(M) == uidgidmap_clear_rc(HashTable_Delall(M, "ht_pwnam", "namemap_free"))

\* ------------------------------------------------------ propagation wrappers
\* a write the wrapper did not issue leaves its rc at ID_MAPPER_SUCCESS
NotIssued(M) == [M |-> M, status |-> "ID_MAPPER_SUCCESS"]

\* Precedence letting the status of the reciprocal write hide the primary's
Precedence_rc2_only(rc1, rc2) ==
    IF rc2 # "ID_MAPPER_SUCCESS" THEN rc2
    ELSE "ID_MAPPER_SUCCESS"

\* the return statement shared by the four wrappers
Precedence(rc1, rc2) ==
    IF rc1 # "ID_MAPPER_SUCCESS" THEN rc1
    ELSE IF rc2 # "ID_MAPPER_SUCCESS" THEN rc2
    ELSE "ID_MAPPER_SUCCESS"

\* a wrapper returns after its writes returned rc1 and r2
Returned(rc1, r2) ==
    [M |-> r2.M, rc1 |-> rc1, rc2 |-> r2.status, status |-> Precedence(rc1, r2.status)]

\* uidmap_add_rc2 issuing the reciprocal write whatever propagate is
uidmap_add_rc2_always(r1, key, val, propagate, overwrite, t) ==
    Returned(r1.status,
             IF ~r1.M.aborted
             THEN namemap_add(r1.M, "ht_pwuid", val, key, overwrite, t)
             ELSE NotIssued(r1.M))

\* uidmap_add_rc2 issuing the reciprocal write without the overwrite flag
uidmap_add_rc2_no_overwrite(r1, key, val, propagate, overwrite, t) ==
    Returned(r1.status,
             IF propagate /\ ~r1.M.aborted
             THEN namemap_add(r1.M, "ht_pwuid", val, key, FALSE, t)
             ELSE NotIssued(r1.M))

\* the reciprocal write r2 of name key for id val taking the name away from
\* every other id of ht_pwuid
OnlyId(r2, key, val) ==
    [r2 EXCEPT !.M.ht["ht_pwuid"] = {e \in @ : e.pkey = val \/ NameOf(r2.M, e.pval) # key}]

\* uidmap_add_rc2 keeping one id per name in the reciprocal table
uidmap_add_rc2_one_id(r1, key, val, propagate, overwrite, t) ==
    Returned(r1.status,
             IF propagate /\ ~r1.M.aborted
             THEN OnlyId(namemap_add(r1.M, "ht_pwuid", val, key, overwrite, t), key, val)
             ELSE NotIssued(r1.M))

\* uidmap_add_rc2 returning without the reciprocal write
uidmap_add_rc2_never(r1, key, val, propagate, overwrite, t) ==
    Returned(r1.status, NotIssued(r1.M))

\* uidmap_add_rc2 issuing the reciprocal write only after a primary write
\* that succeeded
uidmap_add_rc2_if_rc1(r1, key, val, propagate, overwrite, t) ==
    Returned(r1.status,
             IF propagate /\ r1.status = "ID_MAPPER_SUCCESS" /\ ~r1.M.aborted
             THEN namemap_add(r1.M, "ht_pwuid", val, key, overwrite, t)
             ELSE NotIssued(r1.M))

\* uidmap_add after idmap_add returned r1 (an aborted process writes no more)
uidmap_add_rc2(r1, key, val, propagate, overwrite, t) ==
    Returned(r1.status,
             IF propagate /\ ~r1.M.aborted
             THEN namemap_add(r1.M, "ht_pwuid", val, key, overwrite, t)
             ELSE NotIssued(r1.M))

uidmap_add(M, key, val, propagate, overwrite, t) ==
    uidmap_add_rc2(idmap_add(M, "ht_pwnam", key, val, overwrite, t),
                   key, val, propagate, overwrite, t)

\* unamemap_add after namemap_add returned r1
unamemap_add_rc2(r1, key, val, propagate, overwrite, t) ==
    Returned(r1.status,
             IF propagate /\ ~r1.M.aborted
             THEN idmap_add(r1.M, "ht_pwnam", val, key, overwrite, t)
             ELSE NotIssued(r1.M))

unamemap_add(M, key, val, propagate, overwrite, t) ==
    unamemap_add_rc2(namemap_add(M, "ht_pwuid", key, val, overwrite, t),
                     key, val, propagate, overwrite, t)

\* gidmap_add after idmap_add returned r1
gidmap_add_rc2(r1, key, val, propagate, overwrite, t) ==
    Returned(r1.status,
             IF propagate /\ ~r1.M.aborted
             THEN namemap_add(r1.M, "ht_grgid", val, key, overwrite, t)
             ELSE NotIssued(r1.M))

gidmap_add(M, key, val, propagate, overwrite, t) ==
    gidmap_add_rc2(idmap_add(M, "ht_grnam", key, val, overwrite, t),
                   key, val, propagate, overwrite, t)

\* gnamemap_add_rc2 issuing the name->gid write only after a gid->name write
\* that succeeded
gnamemap_add_rc2_if_rc1(r1, key, val, overwrite, t) ==
    Returned(r1.status,
             IF r1.status = "ID_MAPPER_SUCCESS" /\ ~r1.M.aborted
             THEN idmap_add(r1.M, "ht_grnam", val, key, overwrite, t)
             ELSE NotIssued(r1.M))

\* gnamemap_add after namemap_add returned r1
gnamemap_add_rc2(r1, key, val, overwrite, t) ==
    Returned(r1.status,
             IF ~r1.M.aborted
             THEN idmap_add(r1.M, "ht_grnam", val, key, overwrite, t)
             ELSE NotIssued(r1.M))

gnamemap_add(M, key, val, overwrite, t) ==
    gnamemap_add_rc2(namemap_add(M, "ht_grgid", key, val, overwrite, t),
                     key, val, overwrite, t)

uidmap_get(M, key, t) == idmap_get(M, "ht_pwnam", key, t)

unamemap_get(M, key, size, t) == namemap_get(M, "ht_pwuid", key, size, t)

gidmap_get(M, key, t) == idmap_get(M, "ht_grnam", key, t)

gnamemap_get(M, key, size, t) == namemap_get(M, "ht_grgid", key, size, t)

uidmap_remove(M, key) == idmap_remove(M, "ht_pwnam", key)

unamemap_remove(M, key) == namemap_remove(M, "ht_pwuid", key)

gidmap_remove(M, key) == idmap_remove(M, "ht_grnam", key)

gnamemap_remove(M, key) == namemap_remove(M, "ht_grgid", key)

\* ------------------------------------------------------- the bulk loader
\* strtoul(nptr, NULL, 10) on a string of digits and letters (the strings of
\* the model hold no white space and no sign).  Numbers are sequences of
\* decimal digits without leading zero, <<>> being 0, so that the values
\* beyond 32 bits keep their magnitude.
DigitChars == <<"0", "1", "2", "3", "4", "5", "6", "7", "8", "9">>

IsDigit(c) == \E d \in DOMAIN DigitChars : DigitChars[d] = c

DigitOf(c) == (CHOOSE d \in DOMAIN DigitChars : DigitChars[d] = c) - 1

\* the digits that strtoul converts: the longest prefix of digits
RECURSIVE DigitPrefix(_)
DigitPrefix(s) ==
    IF s = <<>> \/ ~IsDigit(Head(s)) THEN <<>>
    ELSE <<DigitOf(Head(s))>> \o DigitPrefix(Tail(s))

RECURSIVE DecNorm(_)
DecNorm(n) == IF n # <<>> /\ Head(n) = 0 THEN DecNorm(Tail(n)) ELSE n

\* a < b on numbers without leading zero
RECURSIVE DecLess(_, _)
DecLess(a, b) ==
    IF Len(a) # Len(b) THEN Len(a) < Len(b)
    ELSE IF a = <<>> THEN FALSE
    ELSE IF Head(a) # Head(b) THEN Head(a) < Head(b)
    ELSE DecLess(Tail(a), Tail(b))

\* the number as an integer, for numbers that a uint32_t id of the model holds
RECURSIVE DecValue(_)
DecValue(n) ==
    IF n = <<>> THEN 0 ELSE 10 * DecValue(SubSeq(n, 1, Len(n) - 1)) + n[Len(n)]

\* UINT_MAX, and ULONG_MAX where unsigned long has 64 bits
UINT_MAX == <<4, 2, 9, 4, 9, 6, 7, 2, 9, 5>>

ULONG_MAX == <<1, 8, 4, 4, 6, 7, 4, 4, 0, 7, 3, 7, 0, 9, 5, 5, 1, 6, 1, 5>>

\* what strtoul does when no digit can be converted is left to the C
\* library: it returns 0, and sets errno to EINVAL or leaves it
LibcNoConversion == {"0", "EINVAL"}

strtoul_digits(n, s, libc) ==
    IF s = <<>> \/ ~IsDigit(Head(s)) THEN [value |-> <<>>, errno |-> libc]
    ELSE IF DecLess(ULONG_MAX, n) THEN [value |-> ULONG_MAX, errno |-> "ERANGE"]
    ELSE [value |-> n, errno |-> "0"]

\* errno is "0" before the call; the rest of the string after the digits is
\* not looked at (endptr is NULL)
strtoul(s, libc) == strtoul_digits(DecNorm(DigitPrefix(s)), s, libc)

\* the configuration file as config_ParseFile hands it over: the items found
\* under the two labels, each a variable `name = value`, a block of items,
\* or missing
NoItem == [type |-> "NONE", name |-> <<>>, value |-> <<>>, items |-> <<>>]

ConfigVar(name, value) ==
    [type |-> "CONFIG_ITEM_VAR", name |-> name, value |-> value, items |-> <<>>]

ConfigBlock(items) ==
    [type |-> "CONFIG_ITEM_BLOCK", name |-> <<>>, value |-> <<>>, items |-> items]

ConfigFile(users, groups) ==
    [parsed |-> TRUE, UID_MAPPER |-> users, GID_MAPPER |-> groups]

\* a path that config_ParseFile cannot open or parse
NoFile == [parsed |-> FALSE, UID_MAPPER |-> NoItem, GID_MAPPER |-> NoItem]

config_FindItemByName(config_file, label) ==
    IF label = "UID_MAPPER" THEN config_file.UID_MAPPER ELSE config_file.GID_MAPPER

config_GetKeyValue(item) ==
    IF item.type = "CONFIG_ITEM_VAR"
    THEN [err |-> 0, key_name |-> item.name, key_value |-> item.value]
    ELSE [err |-> -1, key_name |-> <<>>, key_value |-> <<>>]

\* idmap_populate returns status from inside or after its loop at var_index
\* (counted from 1 here)
Populated(M, status, var_index) == [M |-> M, status |-> status, var_index |-> var_index]

RECURSIVE idmap_populate_loop(_, _, _, _, _, _, _)

\* idmap_populate after namemap_add returned r2 for the entry at var_index
idmap_populate_rev(r2, items, var_index, ht_fwd, ht_reverse, libc, t) ==
    IF r2.status # "ID_MAPPER_SUCCESS" THEN Populated(r2.M, r2.status, var_index)
    ELSE idmap_populate_loop(r2.M, items, var_index + 1, ht_fwd, ht_reverse, libc, t)

\* idmap_populate_fwd that leaves the reverse table out
idmap_populate_fwd_only(r1, key_name, value, items, var_index, ht_fwd, ht_reverse, libc, t) ==
    IF r1.status # "ID_MAPPER_SUCCESS" THEN Populated(r1.M, r1.status, var_index)
    ELSE idmap_populate_loop(r1.M, items, var_index + 1, ht_fwd, ht_reverse, libc, t)

\* idmap_populate after idmap_add returned r1 for the entry at var_index
idmap_populate_fwd(r1, key_name, value, items, var_index, ht_fwd, ht_reverse, libc, t) ==
    IF r1.status # "ID_MAPPER_SUCCESS" THEN Populated(r1.M, r1.status, var_index)
    ELSE idmap_populate_rev(namemap_add(r1.M, ht_reverse, value, key_name, FALSE, t),
                            items, var_index, ht_fwd, ht_reverse, libc, t)

\* idmap_populate_value that passes over an entry whose value it rejects
idmap_populate_value_skip(M, key_name, v, items, var_index, ht_fwd, ht_reverse, libc, t) ==
    IF v.errno # "0" \/ DecLess(UINT_MAX, v.value)
    THEN idmap_populate_loop(M, items, var_index + 1, ht_fwd, ht_reverse, libc, t)
    ELSE idmap_populate_fwd(idmap_add(M, ht_fwd, key_name, DecValue(v.value), FALSE, t),
                            key_name, DecValue(v.value),
                            items, var_index, ht_fwd, ht_reverse, libc, t)

\* idmap_populate after strtoul returned v for the value of the entry
idmap_populate_value(M, key_name, v, items, var_index, ht_fwd, ht_reverse, libc, t) ==
    IF v.errno # "0" \/ DecLess(UINT_MAX, v.value)
    THEN Populated(M, "ID_MAPPER_INVALID_ARGUMENT", var_index)
    ELSE idmap_populate_fwd(idmap_add(M, ht_fwd, key_name, DecValue(v.value), FALSE, t),
                            key_name, DecValue(v.value),
                            items, var_index, ht_fwd, ht_reverse, libc, t)

\* idmap_populate after config_GetKeyValue returned kv for the item
idmap_populate_item(M, kv, items, var_index, ht_fwd, ht_reverse, libc, t) ==
    IF kv.err # 0 THEN Populated(M, "ID_MAPPER_INVALID_ARGUMENT", var_index)
    ELSE idmap_populate_value(M, kv.key_name, strtoul(kv.key_value, libc),
                              items, var_index, ht_fwd, ht_reverse, libc, t)

\* the loop of idmap_populate over the items of the block
idmap_populate_loop(M, items, var_index, ht_fwd, ht_reverse, libc, t) ==
    IF var_index > Len(items) THEN Populated(M, "ID_MAPPER_SUCCESS", var_index)
    ELSE idmap_populate_item(M, config_GetKeyValue(items[var_index]),
                             items, var_index, ht_fwd, ht_reverse, libc, t)

\* idmap_populate after config_FindItemByName returned block
idmap_populate_block(M, block, ht_fwd, ht_reverse, libc, t) ==
    IF block = NoItem THEN Populated(M, "ID_MAPPER_INVALID_ARGUMENT", 0)
    ELSE IF block.type # "CONFIG_ITEM_BLOCK"
    THEN Populated(M, "ID_MAPPER_INVALID_ARGUMENT", 0)
    ELSE idmap_populate_loop(M, block.items, 1, ht_fwd, ht_reverse, libc, t)

\* path stands for the file config_ParseFile(path) reads
idmap_populate(M, path, maptype, libc, t) ==
    IF ~path.parsed THEN Populated(M, "ID_MAPPER_INVALID_ARGUMENT", 0)
    ELSE IF maptype = "UIDMAP_TYPE"
    THEN idmap_populate_block(M, config_FindItemByName(path, "UID_MAPPER"),
                              "ht_pwnam", "ht_pwuid", libc, t)
    ELSE IF maptype = "GIDMAP_TYPE"
    THEN idmap_populate_block(M, config_FindItemByName(path, "GID_MAPPER"),
                              "ht_grnam", "ht_grgid", libc, t)
    ELSE Populated(M, "ID_MAPPER_INVALID_ARGUMENT", 0)

\* ------------------------------------------------------- the process state
\* the process state a call runs on: the five tables, the heap, the faults
\* injected into this call (oom, hterr) and its allocation counters
Mach(oom, hterr) ==
    [ht |-> ht, heap |-> heap, aborted |-> FALSE, badfree |-> badfree,
     exhausted |-> FALSE, oom |-> oom, hterr |-> hterr, nalloc |-> 0, nfree |-> 0]

EmptyTables == [tbl \in Tables |-> {}]

EmptyHeap == [a \in Addrs |-> FreeCell]

\* Addresses carry no meaning of their own, and a cell that no pointer
\* reaches can never be read again.  The state kept between two calls is
\* therefore renumbered: the cells the tables (and the pointers in roots)
\* reach come first, in the order of the tables and their keys, then the
\* unreachable allocated cells, of which only the kind is kept.
RECURSIVE Flatten(_)
Flatten(ss) == IF ss = <<>> THEN <<>> ELSE Head(ss) \o Flatten(Tail(ss))

\* seq without NULL and without the later copies of an address
RECURSIVE Dedup(_, _)
Dedup(seq, seen) ==
    IF seq = <<>> THEN <<>>
    ELSE IF Head(seq) = NULL \/ Head(seq) \in seen THEN Dedup(Tail(seq), seen)
    ELSE <<Head(seq)>> \o Dedup(Tail(seq), seen \cup {Head(seq)})

KeySeq(tbl) == IF tbl \in FwdTables THEN NameSeq ELSE IdSeq

\* the cells an entry of tbl owns: key string and idmap_val, or idmap_val
\* and name string
CellsOfEntry(M, tbl, e) ==
    IF tbl \in FwdTables THEN <<e.pkey, e.pval>>
    ELSE IF e.pval = NULL THEN <<>>
    ELSE <<e.pval, M.heap[e.pval].u>>

CellsOfKey(M, tbl, key) ==
    IF Lookup(M, tbl, key) = {} THEN <<>> ELSE CellsOfEntry(M, tbl, Stored(M, tbl, key))

CellsOfTable(M, tbl) ==
    Flatten([i \in DOMAIN KeySeq(tbl) |-> CellsOfKey(M, tbl, KeySeq(tbl)[i])])

\* the addresses that hold an idmap_val of a reverse table
RevVals(M) == {e.pval : e \in M.ht["ht_pwuid"] \cup M.ht["ht_grgid"]}

Reached(M, roots) ==
    Dedup(Flatten([i \in DOMAIN TableSeq |-> CellsOfTable(M, TableSeq[i])]) \o roots, {})

\* the new address of each old one, ord listing the old ones in their new order
Renumber(M, ord) ==
    [a \in DOMAIN M.heap \cup {NULL} |->
        IF \E i \in DOMAIN ord : ord[i] = a
        THEN CHOOSE i \in DOMAIN ord : ord[i] = a
        ELSE NULL]

\* the number of allocated cells of a kind that ord does not list
Lost(M, ord, kind) ==
    Cardinality({a \in DOMAIN M.heap : M.heap[a].kind = kind /\ \A i \in DOMAIN ord : ord[i] # a})

Relocate(M, ord, pos, lostv, losts, revs) ==
    [M EXCEPT
       !.heap = [a \in DOMAIN M.heap |->
            IF a <= Len(ord)
            THEN IF ord[a] \in revs /\ M.heap[ord[a]].kind = "val"
                 THEN [M.heap[ord[a]] EXCEPT !.u = pos[@]]
                 ELSE M.heap[ord[a]]
            ELSE IF a <= Len(ord) + lostv THEN idmap_val(0, 0)
            ELSE IF a <= Len(ord) + lostv + losts THEN StrCell(<<>>)
            ELSE FreeCell],
       !.ht = [tbl \in Tables |->
            IF tbl \in FwdTables
            THEN {[pkey |-> pos[e.pkey], pval |-> pos[e.pval]] : e \in M.ht[tbl]}
            ELSE IF tbl \in RevTables
            THEN {[pkey |-> e.pkey, pval |-> pos[e.pval]] : e \in M.ht[tbl]}
            ELSE M.ht[tbl]]]

CanonOrd(M, ord, revs) ==
    Relocate(M, ord, Renumber(M, ord), Lost(M, ord, "val"), Lost(M, ord, "str"), revs)

Canon(M, roots, revroots) == CanonOrd(M, Reached(M, roots), RevVals(M) \cup revroots)

\* allocated cells that neither a table nor a pointer in roots reaches
Unreached(M, ord) ==
    {a \in DOMAIN M.heap : M.heap[a].kind # "free" /\ \A i \in DOMAIN ord : ord[i] # a}

Leaked(M, roots) == Unreached(M, Reached(M, roots))

\* ------------------------------------------------------------ the state machine
\* the process state C is what the next call finds
Commit(C) ==
    /\ aborted' = FALSE
    /\ ht' = C.ht
    /\ heap' = C.heap
    /\ badfree' = C.badfree
    /\ now' = now

\* abort() ends the process, whose tables and heap are gone with it
Crash ==
    /\ aborted' = TRUE
    /\ ht' = EmptyTables
    /\ heap' = [a \in DOMAIN heap |-> FreeCell]
    /\ badfree' = FALSE
    /\ now' = 0

\* a call returns and leaves the process state M behind
Return(M) == IF M.aborted THEN Crash ELSE Commit(Canon(M, <<>>, {}))

\* A call is taken only when the cells of the model suffice for it, so that
\* an allocation fails only where a fault is injected.
Finish(r) == ~r.M.exhausted /\ Return(r.M)

\* the locals of a thread that is in no call; op names the function called,
\* and absent notes whether the key of the call was absent from the table
\* when the call was made
NoCall ==
    [op |-> "", tbl |-> NullTable, key |-> NULL, val |-> NULL, overwrite |-> FALSE,
     buffkey |-> NULL, local_val |-> NULL, status |-> "", absent |-> FALSE,
     name |-> NullStr, id |-> -1]

Init ==
    /\ ht = EmptyTables
    /\ heap = EmptyHeap
    /\ now = 0
    /\ aborted = FALSE
    /\ badfree = FALSE
    /\ pc = [t \in Threads |-> "idle"]
    /\ loc = [t \in Threads |-> NoCall]

\* The environment of a specification: the names NS and ids IS it passes,
\* and the faults FS (pairs <<oom, hterr>>) a call can meet.
UidmapAdd(NS, IS, FS) ==
    \E key \in NS, val \in IS, propagate \in BOOLEAN, overwrite \in BOOLEAN, f \in FS :
        /\ ~aborted
        /\ Finish(uidmap_add(Mach(f[1], f[2]), key, val, propagate, overwrite, now))
        /\ UNCHANGED <<pc, loc>>

UnamemapAdd(NS, IS, FS) ==
    \E key \in IS, val \in NS, propagate \in BOOLEAN, overwrite \in BOOLEAN, f \in FS :
        /\ ~aborted
        /\ Finish(unamemap_add(Mach(f[1], f[2]), key, val, propagate, overwrite, now))
        /\ UNCHANGED <<pc, loc>>

GidmapAdd(NS, IS, FS) ==
    \E key \in NS, val \in IS, propagate \in BOOLEAN, overwrite \in BOOLEAN, f \in FS :
        /\ ~aborted
        /\ Finish(gidmap_add(Mach(f[1], f[2]), key, val, propagate, overwrite, now))
        /\ UNCHANGED <<pc, loc>>

GnamemapAdd(NS, IS, FS) ==
    \E key \in IS, val \in NS, overwrite \in BOOLEAN, f \in FS :
        /\ ~aborted
        /\ Finish(gnamemap_add(Mach(f[1], f[2]), key, val, overwrite, now))
        /\ UNCHANGED <<pc, loc>>

\* uidmap_get, gidmap_get
IdmapGet(tbl, NS) ==
    \E key \in NS :
        /\ ~aborted
        /\ Return(idmap_get(Mach(0, 0), tbl, key, now).M)
        /\ UNCHANGED <<pc, loc>>

\* unamemap_get, gnamemap_get
NamemapGet(tbl, IS) ==
    \E key \in IS, size \in BufSizes :
        /\ ~aborted
        /\ Return(namemap_get(Mach(0, 0), tbl, key, size, now).M)
        /\ UNCHANGED <<pc, loc>>

\* uidmap_remove, gidmap_remove
IdmapRemove(tbl, NS) ==
    \E key \in NS :
        /\ ~aborted
        /\ Return(idmap_remove(Mach(0, 0), tbl, key).M)
        /\ UNCHANGED <<pc, loc>>

\* unamemap_remove, gnamemap_remove
NamemapRemove(tbl, IS) ==
    \E key \in IS :
        /\ ~aborted
        /\ Return(namemap_remove(Mach(0, 0), tbl, key).M)
        /\ UNCHANGED <<pc, loc>>

UidgidmapAdd(US, GS, FS) ==
    \E key \in US, value \in GS, f \in FS :
        /\ ~aborted
        /\ Return(uidgidmap_add(Mach(f[1], f[2]), key, value).M)
        /\ UNCHANGED <<pc, loc>>

UidgidmapGet(US) ==
    \E key \in US :
        /\ ~aborted
        /\ Return(uidgidmap_get(Mach(0, 0), key).M)
        /\ UNCHANGED <<pc, loc>>

UidgidmapRemove(US) ==
    \E key \in US :
        /\ ~aborted
        /\ Return(uidgidmap_remove(Mach(0, 0), key).M)
        /\ UNCHANGED <<pc, loc>>

\* the wall clock advances between two calls
Tick ==
    /\ ~aborted
    /\ now < MaxTime
    /\ now' = now + 1
    /\ UNCHANGED <<ht, heap, aborted, badfree, pc, loc>>

\* Spec: one thread calls the cache; no fault is injected.  The user domain
\* is called with every name and id, the group domain and the direct map
\* with one of each.
NoFault == {<<0, 0>>}
GroupNames == {NameSeq[1]}
GroupIds == {IdSeq[2]}

Next ==
    \/ UidmapAdd(Names, Ids, NoFault)
    \/ UnamemapAdd(Names, Ids, NoFault)
    \/ GidmapAdd(GroupNames, GroupIds, NoFault)
    \/ GnamemapAdd(GroupNames, GroupIds, NoFault)
    \/ IdmapGet("ht_pwnam", Names)
    \/ IdmapGet("ht_grnam", GroupNames)
    \/ NamemapGet("ht_pwuid", Ids)
    \/ NamemapGet("ht_grgid", GroupIds)
    \/ IdmapRemove("ht_pwnam", Names)
    \/ IdmapRemove("ht_grnam", GroupNames)
    \/ NamemapRemove("ht_pwuid", Ids)
    \/ NamemapRemove("ht_grgid", GroupIds)
    \/ UidgidmapAdd(GroupIds, GroupIds, NoFault)
    \/ UidgidmapGet(GroupIds)
    \/ UidgidmapRemove(GroupIds)
    \/ Tick

Spec == Init /\ [][Next]_vars


\* ------------------------------------------------- properties of the engines
\* the process state between two calls
S == Mach(0, 0)

Ok(v) == [status |-> "ID_MAPPER_SUCCESS", val |-> v]

\* what a get returned to its caller
Out(g) == [status |-> g.status, val |-> g.val]

\* the idmap_val of key in tbl, and its age on the wall clock
EntryOf(M, tbl, key) == M.heap[Stored(M, tbl, key).pval]

Age(tbl, key) == now - EntryOf(S, tbl, key).timestamp

\* a buffer that holds the whole name
Room(name) == Len(name) + 1

\* C1 as claimed: from any state of a forward table, idmap_add(ht, k, v,
\* overwrite=false) that returns ID_MAPPER_SUCCESS is followed by an
\* idmap_get(ht, k) that returns ID_MAPPER_SUCCESS with v
C1_AddThenGetFromAnyState ==
    \A tbl \in FwdTables, k \in Names, v \in Ids :
        LET r == idmap_add(S, tbl, k, v, FALSE, now)
        IN  r.status = "ID_MAPPER_SUCCESS" => Out(idmap_get(r.M, tbl, k, now)) = Ok(v)

\* C1 amended: when the forward table holds no entry for k, idmap_add(ht, k,
\* v, overwrite=false) that returns ID_MAPPER_SUCCESS is followed by an
\* idmap_get(ht, k) that returns ID_MAPPER_SUCCESS with v
C1_AddThenGetAbsentKey ==
    \A tbl \in FwdTables, k \in Names, v \in Ids :
        LET r == idmap_add(S, tbl, k, v, FALSE, now)
        IN  (Lookup(S, tbl, k) = {} /\ r.status = "ID_MAPPER_SUCCESS")
                => Out(idmap_get(r.M, tbl, k, now)) = Ok(v)

\* an add of an absent key to a forward table that holds another key already,
\* and the get that follows it
C1_Witness ==
    \E tbl \in FwdTables, k \in Names, v \in Ids :
        /\ Lookup(S, tbl, k) = {}
        /\ S.ht[tbl] # {}
        /\ now > 0
        /\ LET r == idmap_add(S, tbl, k, v, FALSE, now)
           IN  r.status = "ID_MAPPER_SUCCESS" /\ Out(idmap_get(r.M, tbl, k, now)) = Ok(v)

\* C2: on both engines, add(k, v2, overwrite=true) on a key that an earlier
\* add cached makes get(k) return Success(v2), leaves exactly one entry for k
\* and sets the entry's timestamp to the time of this add, whatever the age
\* of the entry was
C2_OverwriteResets ==
    /\ \A tbl \in FwdTables, k \in Names, v2 \in Ids :
         LET r == idmap_add(S, tbl, k, v2, TRUE, now)
         IN  Lookup(S, tbl, k) # {} =>
               /\ r.status = "ID_MAPPER_SUCCESS"
               /\ Out(idmap_get(r.M, tbl, k, now)) = Ok(v2)
               /\ Cardinality(Lookup(r.M, tbl, k)) = 1
               /\ EntryOf(r.M, tbl, k).timestamp = now
    /\ \A tbl \in RevTables, k \in Ids, v2 \in Names :
         LET r == namemap_add(S, tbl, k, v2, TRUE, now)
         IN  Lookup(S, tbl, k) # {} =>
               /\ r.status = "ID_MAPPER_SUCCESS"
               /\ Out(namemap_get(r.M, tbl, k, Room(v2), now)) = Ok(v2)
               /\ Cardinality(Lookup(r.M, tbl, k)) = 1
               /\ EntryOf(r.M, tbl, k).timestamp = now

\* an expired entry of each engine that an overwrite with another value
\* makes fresh again
C2_Witness ==
    /\ \E tbl \in FwdTables, k \in Names, v2 \in Ids :
         /\ Lookup(S, tbl, k) # {}
         /\ idmap_get(S, tbl, k, now).status = "ID_MAPPER_CACHE_EXPIRE"
         /\ EntryOf(S, tbl, k).u # v2
         /\ Out(idmap_get(idmap_add(S, tbl, k, v2, TRUE, now).M, tbl, k, now)) = Ok(v2)
    /\ \E tbl \in RevTables, k \in Ids, v2 \in Names :
         /\ Lookup(S, tbl, k) # {}
         /\ namemap_get(S, tbl, k, Room(v2), now).status = "ID_MAPPER_CACHE_EXPIRE"
         /\ NameOf(S, Stored(S, tbl, k).pval) # v2
         /\ Out(namemap_get(namemap_add(S, tbl, k, v2, TRUE, now).M,
                             tbl, k, Room(v2), now)) = Ok(v2)

\* clock values from now on, for gets that follow with no write in between
Later == now..(MaxTime + 2)

\* C3: a get of an entry older than the timeout returns
\* ID_MAPPER_CACHE_EXPIRE, and so does every get of the key at the same or a
\* later clock value while no write intervenes
C3_ExpiredStaysExpired ==
    /\ \A tbl \in FwdTables, k \in Names, t1 \in Later, t2 \in Later :
         (/\ Lookup(S, tbl, k) # {}
          /\ t1 - EntryOf(S, tbl, k).timestamp > IdmapCacheTimeout
          /\ t1 <= t2)
            => /\ idmap_get(S, tbl, k, t1).status = "ID_MAPPER_CACHE_EXPIRE"
               /\ idmap_get(S, tbl, k, t2).status = "ID_MAPPER_CACHE_EXPIRE"
    /\ \A tbl \in RevTables, k \in Ids, size \in BufSizes, t1 \in Later, t2 \in Later :
         (/\ Lookup(S, tbl, k) # {}
          /\ t1 - EntryOf(S, tbl, k).timestamp > IdmapCacheTimeout
          /\ t1 <= t2)
            => /\ namemap_get(S, tbl, k, size, t1).status = "ID_MAPPER_CACHE_EXPIRE"
               /\ namemap_get(S, tbl, k, size, t2).status = "ID_MAPPER_CACHE_EXPIRE"

\* an entry of each engine older than the timeout, whose get returns
\* ID_MAPPER_CACHE_EXPIRE
C3_Witness ==
    /\ \E tbl \in FwdTables, k \in Names :
         /\ Lookup(S, tbl, k) # {}
         /\ Age(tbl, k) > IdmapCacheTimeout
         /\ idmap_get(S, tbl, k, now).status = "ID_MAPPER_CACHE_EXPIRE"
    /\ \E tbl \in RevTables, k \in Ids :
         /\ Lookup(S, tbl, k) # {}
         /\ Age(tbl, k) > IdmapCacheTimeout
         /\ namemap_get(S, tbl, k, 2, now).status = "ID_MAPPER_CACHE_EXPIRE"

\* C4: idmap_get and namemap_get return Success for every age of the entry
\* up to and including the timeout, and CacheExpired only for an age
\* strictly greater than the timeout
C4_FreshUpToTimeout ==
    /\ \A tbl \in FwdTables, k \in Names :
         Lookup(S, tbl, k) # {} =>
           (idmap_get(S, tbl, k, now).status =
              IF Age(tbl, k) <= IdmapCacheTimeout
              THEN "ID_MAPPER_SUCCESS" ELSE "ID_MAPPER_CACHE_EXPIRE")
    /\ \A tbl \in RevTables, k \in Ids, size \in BufSizes :
         Lookup(S, tbl, k) # {} =>
           (namemap_get(S, tbl, k, size, now).status =
              IF Age(tbl, k) <= IdmapCacheTimeout
              THEN "ID_MAPPER_SUCCESS" ELSE "ID_MAPPER_CACHE_EXPIRE")

\* the cells of seq that are still allocated in M
Allocated(M, seq) == {seq[i] : i \in {j \in DOMAIN seq : M.heap[seq[j]].kind # "free"}}

\* C6: after idmap_remove succeeds the stored key string and the idmap_val
\* are freed, after namemap_remove succeeds the idmap_val and its name string
\* are freed: no cell of the removed entry is left allocated and unreachable
C6_RemoveFreesEntry ==
    /\ \A tbl \in FwdTables, k \in Names :
         LET r == idmap_remove(S, tbl, k)
         IN  r.status = "ID_MAPPER_SUCCESS" =>
               /\ Allocated(r.M, CellsOfKey(S, tbl, k)) = {}
               /\ Leaked(r.M, <<>>) \subseteq Leaked(S, <<>>)
    /\ \A tbl \in RevTables, k \in Ids :
         LET r == namemap_remove(S, tbl, k)
         IN  r.status = "ID_MAPPER_SUCCESS" =>
               /\ Allocated(r.M, CellsOfKey(S, tbl, k)) = {}
               /\ Leaked(r.M, <<>>) \subseteq Leaked(S, <<>>)

\* ------------------------------------------------ properties of the wrappers
\* the forward get of n returns i and the reverse get of i returns n, into a
\* buffer that holds n, in the domain of tables fwd, rev of the state r.M
RoundTrip(r, fwd, rev, n, i) ==
    /\ Out(namemap_get(r.M, rev, i, Room(n), now)) = Ok(n)
    /\ Out(idmap_get(r.M, fwd, n, now)) = Ok(i)

\* the call that returned r succeeded and the round trip holds after it
SucceededWithRoundTrip(r, fwd, rev, n, i) ==
    r.status = "ID_MAPPER_SUCCESS" => RoundTrip(r, fwd, rev, n, i)

\* C8 as claimed: from any state of the tables, uidmap_add(n, i,
\* propagate=true, overwrite) that returns ID_MAPPER_SUCCESS is followed by
\* unamemap_get(i) returning n and uidmap_get(n) returning i, and likewise
\* gidmap_add by gnamemap_get and gidmap_get
C8_RoundTripFromAnyState ==
    \A n \in Names, i \in Ids, overwrite \in BOOLEAN :
        /\ SucceededWithRoundTrip(uidmap_add(S, n, i, TRUE, overwrite, now),
                                  "ht_pwnam", "ht_pwuid", n, i)
        /\ SucceededWithRoundTrip(gidmap_add(S, n, i, TRUE, overwrite, now),
                                  "ht_grnam", "ht_grgid", n, i)

\* neither the name n nor the id i is cached in the domain of tables fwd, rev
Uncached(fwd, rev, n, i) == Lookup(S, fwd, n) = {} /\ Lookup(S, rev, i) = {}

\* C8 amended: uidmap_add(n, i, propagate=true, overwrite) that returns
\* ID_MAPPER_SUCCESS is followed by unamemap_get(i) returning n (into a
\* buffer that holds n) and uidmap_get(n) returning i when overwrite is set
\* or neither n nor i was cached before the call; likewise gidmap_add
C8_RoundTripOverwriteOrUncached ==
    \A n \in Names, i \in Ids, overwrite \in BOOLEAN :
        /\ (overwrite \/ Uncached("ht_pwnam", "ht_pwuid", n, i)) =>
              SucceededWithRoundTrip(uidmap_add(S, n, i, TRUE, overwrite, now),
                                     "ht_pwnam", "ht_pwuid", n, i)
        /\ (overwrite \/ Uncached("ht_grnam", "ht_grgid", n, i)) =>
              SucceededWithRoundTrip(gidmap_add(S, n, i, TRUE, overwrite, now),
                                     "ht_grnam", "ht_grgid", n, i)

\* a propagating overwrite of a name cached with another id and of an id
\* cached with another name, both expired, and the two gets that follow it
C8_Witness ==
    \E n \in Names, i \in Ids :
        /\ Lookup(S, "ht_pwnam", n) # {}
        /\ Lookup(S, "ht_pwuid", i) # {}
        /\ EntryOf(S, "ht_pwnam", n).u # i
        /\ NameOf(S, Stored(S, "ht_pwuid", i).pval) # n
        /\ uidmap_get(S, n, now).status = "ID_MAPPER_CACHE_EXPIRE"
        /\ uidmap_add(S, n, i, TRUE, TRUE, now).status = "ID_MAPPER_SUCCESS"
        /\ RoundTrip(uidmap_add(S, n, i, TRUE, TRUE, now), "ht_pwnam", "ht_pwuid", n, i)

\* what a table maps: each key with its value and timestamp, whatever the
\* addresses of the cells that hold them
View(M, tbl) ==
    IF tbl \in FwdTables
    THEN {[key |-> M.heap[e.pkey].s, val |-> M.heap[e.pval].u,
           timestamp |-> M.heap[e.pval].timestamp] : e \in M.ht[tbl]}
    ELSE IF tbl \in RevTables
    THEN {[key |-> e.pkey, val |-> NameOf(M, e.pval),
           timestamp |-> M.heap[e.pval].timestamp] : e \in M.ht[tbl]}
    ELSE M.ht[tbl]

\* the wrapper left M: table primary is as the primary write p leaves it,
\* table reciprocal as the reciprocal write q does when propagate is set and
\* as it was otherwise, and the tables in others as they were
Framed(M, primary, p, reciprocal, q, propagate, others) ==
    M.aborted \/
      /\ View(M, primary) = View(p.M, primary)
      /\ View(M, reciprocal) = IF propagate THEN View(q.M, reciprocal) ELSE View(S, reciprocal)
      /\ \A tbl \in others : View(M, tbl) = View(S, tbl)

\* C10: uidmap_add, unamemap_add and gidmap_add with propagate=false write
\* their primary table and leave the reciprocal table of the domain
\* unchanged, with propagate=true they also issue the reciprocal write with
\* the same overwrite flag; the tables of the other domain and the uid->gid
\* map are unchanged in both cases
C10_PropagateFrame ==
    \A n \in Names, i \in Ids, propagate \in BOOLEAN, overwrite \in BOOLEAN :
        /\ Framed(uidmap_add(S, n, i, propagate, overwrite, now).M,
                  "ht_pwnam", idmap_add(S, "ht_pwnam", n, i, overwrite, now),
                  "ht_pwuid", namemap_add(S, "ht_pwuid", i, n, overwrite, now),
                  propagate, {"ht_grnam", "ht_grgid", "ht_uidgid"})
        /\ Framed(unamemap_add(S, i, n, propagate, overwrite, now).M,
                  "ht_pwuid", namemap_add(S, "ht_pwuid", i, n, overwrite, now),
                  "ht_pwnam", idmap_add(S, "ht_pwnam", n, i, overwrite, now),
                  propagate, {"ht_grnam", "ht_grgid", "ht_uidgid"})
        /\ Framed(gidmap_add(S, n, i, propagate, overwrite, now).M,
                  "ht_grnam", idmap_add(S, "ht_grnam", n, i, overwrite, now),
                  "ht_grgid", namemap_add(S, "ht_grgid", i, n, overwrite, now),
                  propagate, {"ht_pwnam", "ht_pwuid", "ht_uidgid"})

\* with an entry in a table of the group domain and in the uid->gid map, a
\* uidmap_add that changes the reciprocal table with propagate=true and
\* writes only the primary one with propagate=false
C10_Witness ==
    /\ S.ht["ht_grnam"] # {}
    /\ S.ht["ht_uidgid"] # {}
    /\ S.ht["ht_pwuid"] # {}
    /\ \E n \in Names, i \in Ids :
         LET p == uidmap_add(S, n, i, TRUE, TRUE, now)
             q == uidmap_add(S, n, i, FALSE, TRUE, now)
         IN  /\ ~p.M.aborted
             /\ View(p.M, "ht_pwuid") # View(S, "ht_pwuid")
             /\ View(q.M, "ht_pwuid") = View(S, "ht_pwuid")
             /\ View(q.M, "ht_pwnam") # View(S, "ht_pwnam")

\* ------------------------------------------------------ calls that meet faults
\* SpecFault: one thread calls the wrappers, and a call can meet a fault: its
\* first or second allocation fails, or its first or second store insert.
\* NullStr is passed as a null name.
Faults == {<<0, 0>>, <<1, 0>>, <<2, 0>>, <<0, 1>>, <<0, 2>>}
FaultNames == {NameSeq[1], NullStr}

NextFault ==
    \/ UidmapAdd(FaultNames, Ids, Faults)
    \/ UnamemapAdd(FaultNames, Ids, Faults)
    \/ GidmapAdd(FaultNames, GroupIds, Faults)
    \/ GnamemapAdd(FaultNames, GroupIds, Faults)
    \/ Tick

SpecFault == Init /\ [][NextFault]_vars

\* C7: when an allocation made by idmap_add or namemap_add fails, the call
\* returns ID_MAPPER_INSERT_MALLOC_ERROR and the process keeps running: no
\* reachable state is a process abort caused by an allocation failure
C7_AllocFailureDegrades == ~aborted

\* the status the claim gives a wrapper whose primary write returns r1 and
\* whose reciprocal write, issued or not, returns r2
Claimed(r1, issued, r2) ==
    IF r1.status # "ID_MAPPER_SUCCESS" THEN r1.status
    ELSE IF issued /\ r2.status # "ID_MAPPER_SUCCESS" THEN r2.status
    ELSE "ID_MAPPER_SUCCESS"

\* the wrapper that left r returned the status the claim gives it
ByPrecedence(r, r1, issued, r2) == r.M.aborted \/ r.status = Claimed(r1, issued, r2)

\* the two writes of the wrappers, made one after the other outside them
Fwd1(f, tbl, n, i, ow) == idmap_add(Mach(f[1], f[2]), tbl, n, i, ow, now)

Rev1(f, tbl, n, i, ow) == namemap_add(Mach(f[1], f[2]), tbl, i, n, ow, now)

Fwd2(r1, tbl, n, i, ow) == idmap_add(r1.M, tbl, n, i, ow, now)

Rev2(r1, tbl, n, i, ow) == namemap_add(r1.M, tbl, i, n, ow, now)

\* C9: uidmap_add, unamemap_add, gidmap_add and gnamemap_add return the
\* status of the primary write when it is not ID_MAPPER_SUCCESS, whatever the
\* reciprocal write returned; else the status of the reciprocal write when
\* that is not ID_MAPPER_SUCCESS; else ID_MAPPER_SUCCESS
C9_ReturnPrecedence ==
    \A f \in Faults, n \in FaultNames, i \in Ids, p \in BOOLEAN, ow \in BOOLEAN :
        /\ ByPrecedence(uidmap_add(Mach(f[1], f[2]), n, i, p, ow, now),
                        Fwd1(f, "ht_pwnam", n, i, ow), p,
                        Rev2(Fwd1(f, "ht_pwnam", n, i, ow), "ht_pwuid", n, i, ow))
        /\ ByPrecedence(unamemap_add(Mach(f[1], f[2]), i, n, p, ow, now),
                        Rev1(f, "ht_pwuid", n, i, ow), p,
                        Fwd2(Rev1(f, "ht_pwuid", n, i, ow), "ht_pwnam", n, i, ow))
        /\ ByPrecedence(gidmap_add(Mach(f[1], f[2]), n, i, p, ow, now),
                        Fwd1(f, "ht_grnam", n, i, ow), p,
                        Rev2(Fwd1(f, "ht_grnam", n, i, ow), "ht_grgid", n, i, ow))
        /\ ByPrecedence(gnamemap_add(Mach(f[1], f[2]), i, n, ow, now),
                        Rev1(f, "ht_grgid", n, i, ow), TRUE,
                        Fwd2(Rev1(f, "ht_grgid", n, i, ow), "ht_grnam", n, i, ow))

\* a uidmap_add whose primary write fails in the store while the reciprocal
\* write succeeds, and one whose reciprocal write alone fails, on tables
\* that hold entries
C9_Witness ==
    /\ S.ht["ht_pwnam"] # {}
    /\ S.ht["ht_pwuid"] # {}
    /\ \E n \in Names, i \in Ids, ow \in BOOLEAN :
         LET r1 == Fwd1(<<0, 1>>, "ht_pwnam", n, i, ow)
             r  == uidmap_add(Mach(0, 1), n, i, TRUE, ow, now)
         IN  /\ r1.status = "ID_MAPPER_INSERT_MALLOC_ERROR"
             /\ Rev2(r1, "ht_pwuid", n, i, ow).status = "ID_MAPPER_SUCCESS"
             /\ ~r.M.aborted
             /\ r.status = "ID_MAPPER_INSERT_MALLOC_ERROR"
    /\ \E n \in Names, i \in Ids, ow \in BOOLEAN :
         LET r1 == Fwd1(<<0, 2>>, "ht_pwnam", n, i, ow)
             r  == uidmap_add(Mach(0, 2), n, i, TRUE, ow, now)
         IN  /\ r1.status = "ID_MAPPER_SUCCESS"
             /\ Rev2(r1, "ht_pwuid", n, i, ow).status = "ID_MAPPER_INSERT_MALLOC_ERROR"
             /\ ~r.M.aborted
             /\ r.status = "ID_MAPPER_INSERT_MALLOC_ERROR"

\* ------------------------------------------------------- concurrent callers
\* SpecMT: worker threads call idmap_add and namemap_add with overwrite=0 on
\* the user tables at the same time.  A call is two steps, up to the label
\* found and from it on; the calls of the store are atomic and are where the
\* threads interleave.  No fault is injected, and the clock stands still.
Entered(t, tbl, key, val, a) ==
    /\ pc[t] = "idle"
    /\ ~aborted
    /\ a.jump = "found"
    /\ Commit(a.M)
    /\ pc' = [pc EXCEPT ![t] = "found"]
    /\ loc' = [loc EXCEPT ![t] = [NoCall EXCEPT !.op = "add", !.tbl = tbl, !.key = key, !.val = val,
                                  !.buffkey = a.buffkey, !.local_val = a.local_val,
                                  !.absent = (Lookup(S, tbl, key) = {})]]

Left(t, r) ==
    /\ Commit(r.M)
    /\ pc' = [pc EXCEPT ![t] = "done"]
    /\ loc' = [loc EXCEPT ![t].status = r.status]

IdmapAddCall(t) ==
    \E key \in Names, val \in Ids :
        Entered(t, "ht_pwnam", key, val,
                idmap_add_lookup(S, "ht_pwnam", key, val, FALSE, now))

IdmapAddSet(t) ==
    /\ pc[t] = "found"
    /\ loc[t].tbl \in FwdTables
    /\ Left(t, idmap_add_set(S, loc[t].tbl, loc[t].buffkey, loc[t].local_val))

NamemapAddCall(t) ==
    \E key \in Ids, val \in Names :
        Entered(t, "ht_pwuid", key, val,
                namemap_add_lookup(S, "ht_pwuid", key, val, FALSE, now))

NamemapAddSet(t) ==
    /\ pc[t] = "found"
    /\ loc[t].tbl \in RevTables
    /\ Left(t, namemap_add_set(S, loc[t].tbl, loc[t].buffkey, loc[t].local_val))

NextMT ==
    \E t \in Threads :
        \/ IdmapAddCall(t)
        \/ IdmapAddSet(t)
        \/ NamemapAddCall(t)
        \/ NamemapAddSet(t)

SpecMT == Init /\ [][NextMT]_vars

\* the threads that called add(tbl, k, ...), and those of them that returned
Callers(tbl, k) == {t \in Threads : pc[t] # "idle" /\ loc[t].tbl = tbl /\ loc[t].key = k}

Returners(tbl, k) == {t \in Callers(tbl, k) : pc[t] = "done"}

\* the cells a thread at the label found holds in its locals
Held(t) ==
    IF pc[t] # "found" THEN <<>>
    ELSE IF loc[t].tbl \in FwdTables THEN <<loc[t].buffkey, loc[t].local_val>>
    ELSE <<loc[t].local_val, heap[loc[t].local_val].u>>

Roots == Flatten([t \in Threads |-> Held(t)])

\* C5: when threads call add(k, v_i, overwrite=false) at the same time for an
\* absent key k, every call returns ID_MAPPER_SUCCESS, the table ends with
\* exactly one entry for k, a get(k) then returns one of the v_i, and the key
\* and entry a losing thread allocated are freed exactly once: no cell is
\* freed twice, none is left allocated that neither the table nor a running
\* call holds, and none the table holds is freed
C5_ConcurrentFirstInsert ==
    /\ ~badfree
    /\ Leaked(S, Roots) = {}
    /\ Allocated(S, Reached(S, Roots)) = {Reached(S, Roots)[j] : j \in DOMAIN Reached(S, Roots)}
    /\ \A t \in Threads : pc[t] = "done" => loc[t].status = "ID_MAPPER_SUCCESS"
    /\ \A k \in Names :
         Returners("ht_pwnam", k) # {} =>
           /\ Cardinality(Lookup(S, "ht_pwnam", k)) = 1
           /\ idmap_get(S, "ht_pwnam", k, now).status = "ID_MAPPER_SUCCESS"
           /\ idmap_get(S, "ht_pwnam", k, now).val
                \in {loc[t].val : t \in Callers("ht_pwnam", k)}
    /\ \A k \in Ids :
         Returners("ht_pwuid", k) # {} =>
           /\ Cardinality(Lookup(S, "ht_pwuid", k)) = 1
           /\ namemap_get(S, "ht_pwuid", k, 3, now).status = "ID_MAPPER_SUCCESS"
           /\ namemap_get(S, "ht_pwuid", k, 3, now).val
                \in {loc[t].val : t \in Callers("ht_pwuid", k)}

\* two threads have both returned from an add of the same key with different
\* values, which each of them made while the key was absent, on the forward
\* table or on the reverse one
C5_Witness ==
    \E t1 \in Threads, t2 \in Threads :
        /\ pc[t1] = "done" /\ pc[t2] = "done"
        /\ loc[t1].absent /\ loc[t2].absent
        /\ loc[t1].tbl = loc[t2].tbl
        /\ loc[t1].key = loc[t2].key
        /\ loc[t1].val # loc[t2].val
        /\ Cardinality(S.ht[loc[t1].tbl]) = 1
        /\ Leaked(S, <<>>) = {}

\* ------------------------------------------- the reverse-authoritative group write
\* C11: every call of gnamemap_add(gid, name, overwrite) issues the gid->name
\* write on ht_grgid and then the name->gid write on ht_grnam, whatever the
\* first write returned; a call that returns ID_MAPPER_SUCCESS leaves gid
\* stored in ht_grgid and name stored in ht_grnam
C11_GroupWriteBothDirections ==
    \A f \in Faults, n \in FaultNames, i \in Ids, ow \in BOOLEAN :
        LET r1 == Rev1(f, "ht_grgid", n, i, ow)
            r2 == Fwd2(r1, "ht_grnam", n, i, ow)
            r  == gnamemap_add(Mach(f[1], f[2]), i, n, ow, now)
        IN  /\ ~r1.M.aborted =>
                  /\ r.M = r2.M
                  /\ r.rc1 = r1.status
                  /\ r.rc2 = r2.status
            /\ (~r.M.aborted /\ r.status = "ID_MAPPER_SUCCESS") =>
                  /\ Lookup(r.M, "ht_grgid", i) # {}
                  /\ Lookup(r.M, "ht_grnam", n) # {}

\* a gnamemap_add whose gid->name write fails in the store and whose
\* name->gid write stores a name that ht_grnam did not hold
C11_Witness ==
    /\ S.ht["ht_grgid"] # {}
    /\ \E n \in Names, i \in Ids, ow \in BOOLEAN :
         LET r == gnamemap_add(Mach(0, 1), i, n, ow, now)
         IN  /\ Lookup(S, "ht_grnam", n) = {}
             /\ ~r.M.aborted
             /\ r.rc1 = "ID_MAPPER_INSERT_MALLOC_ERROR"
             /\ r.rc2 = "ID_MAPPER_SUCCESS"
             /\ Lookup(r.M, "ht_grnam", n) # {}

\* ------------------------------------------------------------ the direct map
\* SpecDirect: worker threads call the uid->gid map.  uidgidmap_add is two
\* steps, the call with its arguments and the call of the store, which is
\* atomic and can fail inside the store; get, remove and clear are one step.
DirectFaults == {<<0, 0>>, <<0, 1>>}

UidgidmapAddCall(t) ==
    \E key \in Ids, value \in Ids :
        /\ pc[t] = "idle"
        /\ ~aborted
        /\ pc' = [pc EXCEPT ![t] = "set"]
        /\ loc' = [loc EXCEPT ![t] = [NoCall EXCEPT !.tbl = "ht_uidgid",
                                                    !.key = key, !.val = value]]
        /\ UNCHANGED <<ht, heap, now, aborted, badfree>>

UidgidmapAddSet(t) ==
    \E f \in DirectFaults :
        /\ pc[t] = "set"
        /\ Return(uidgidmap_add(Mach(f[1], f[2]), loc[t].key, loc[t].val).M)
        /\ pc' = [pc EXCEPT ![t] = "idle"]
        /\ loc' = [loc EXCEPT ![t].status =
                      uidgidmap_add(Mach(f[1], f[2]), loc[t].key, loc[t].val).status]

UidgidmapClear ==
    /\ ~aborted
    /\ Return(uidgidmap_clear(Mach(0, 0)).M)
    /\ UNCHANGED <<pc, loc>>

NextDirect ==
    \/ \E t \in Threads : UidgidmapAddCall(t)
    \/ \E t \in Threads : UidgidmapAddSet(t)
    \/ UidgidmapGet(Ids)
    \/ UidgidmapRemove(Ids)
    \/ UidgidmapClear

SpecDirect == Init /\ [][NextDirect]_vars

NotFound == [status |-> "ID_MAPPER_NOT_FOUND", val |-> -1]

\* C12: uidgidmap_get returns the stored gid of a uid that has an entry, uid
\* 0 included; for a uid without entry it returns ID_MAPPER_NOT_FOUND, except
\* for uid 0, where it returns ID_MAPPER_SUCCESS with gid 0, also after
\* uidgidmap_remove(0) and after uidgidmap_clear
C12_DirectMapRoot ==
    /\ \A uid \in Ids :
         IF Lookup(S, "ht_uidgid", uid) # {}
         THEN Out(uidgidmap_get(S, uid)) = Ok(Stored(S, "ht_uidgid", uid).pval)
         ELSE IF uid = 0
         THEN Out(uidgidmap_get(S, uid)) = Ok(0)
         ELSE Out(uidgidmap_get(S, uid)) = NotFound
    /\ Out(uidgidmap_get(uidgidmap_remove(S, 0).M, 0)) = Ok(0)
    /\ Out(uidgidmap_get(uidgidmap_clear(S).M, 0)) = Ok(0)
    /\ \A uid \in Ids \ {0} : Out(uidgidmap_get(uidgidmap_clear(S).M, uid)) = NotFound

\* uid 0 is mapped to another gid than 0 while uid 1 has no entry, and
\* removing the entry of uid 0 brings the answer gid 0 back
C12_Witness ==
    /\ Lookup(S, "ht_uidgid", 0) # {}
    /\ Lookup(S, "ht_uidgid", 1) = {}
    /\ Out(uidgidmap_get(S, 0)) = Ok(1)
    /\ Out(uidgidmap_get(S, 1)) = NotFound
    /\ Out(uidgidmap_get(uidgidmap_remove(S, 0).M, 0)) = Ok(0)

\* ------------------------------------------------ misses of the four TTL tables
\* C13: on ht_pwnam, ht_grnam, ht_pwuid and ht_grgid a get of a key that has
\* no entry returns ID_MAPPER_NOT_FOUND, for every key, numeric id 0 included
C13_NoRootOnTtlTables ==
    /\ \A tbl \in FwdTables, k \in Names :
         Lookup(S, tbl, k) = {} => Out(idmap_get(S, tbl, k, now)) = NotFound
    /\ \A k \in Names :
         /\ Lookup(S, "ht_pwnam", k) = {} => Out(uidmap_get(S, k, now)) = NotFound
         /\ Lookup(S, "ht_grnam", k) = {} => Out(gidmap_get(S, k, now)) = NotFound
    /\ \A k \in Ids, size \in BufSizes :
         /\ Lookup(S, "ht_pwuid", k) = {} =>
              unamemap_get(S, k, size, now).status = "ID_MAPPER_NOT_FOUND"
         /\ Lookup(S, "ht_grgid", k) = {} =>
              gnamemap_get(S, k, size, now).status = "ID_MAPPER_NOT_FOUND"

\* ht_pwuid holds an entry for another id than 0, and unamemap_get(0) misses
C13_Witness ==
    /\ Lookup(S, "ht_pwuid", 1) # {}
    /\ Lookup(S, "ht_pwuid", 0) = {}
    /\ Lookup(S, "ht_grgid", 0) = {}
    /\ S.ht["ht_grgid"] # {}
    /\ unamemap_get(S, 0, 2, now).status = "ID_MAPPER_NOT_FOUND"
    /\ gnamemap_get(S, 0, 2, now).status = "ID_MAPPER_NOT_FOUND"

\* ------------------------------------------------------ writes of the direct map
\* the entries ht_uidgid holds for uid, now and after the step
Mapped(uid) == {e \in ht["ht_uidgid"] : e.pkey = uid}

MappedNext(uid) == {e \in ht'["ht_uidgid"] : e.pkey = uid}

\* thread t returns from uidgidmap_add in this step
AddReturns(t) == pc[t] = "set" /\ pc'[t] = "idle"

\* C14 (1): in every state ht_uidgid holds at most one entry per uid, and
\* uidgidmap_add returns ID_MAPPER_SUCCESS unless the store reports an error
\* other than key-already-exists; a successful call leaves exactly one entry
\* for the uid, holding the gid of the call, and the other uids as they were
C14_SetState ==
    /\ \A uid \in Ids : Cardinality(Lookup(S, "ht_uidgid", uid)) <= 1
    /\ \A f \in DirectFaults, uid \in Ids, gid \in Ids :
         LET M0 == Mach(f[1], f[2])
             rc == HashTable_Test_And_Set(M0, "ht_uidgid", uid, gid,
                                          "HASHTABLE_SET_HOW_SET_OVERWRITE").rc
             r  == uidgidmap_add(M0, uid, gid)
         IN  /\ r.status = IF rc \in {"HASHTABLE_SUCCESS",
                                      "HASHTABLE_ERROR_KEY_ALREADY_EXISTS"}
                           THEN "ID_MAPPER_SUCCESS"
                           ELSE "ID_MAPPER_INSERT_MALLOC_ERROR"
             /\ r.status = "ID_MAPPER_SUCCESS" =>
                  /\ Lookup(r.M, "ht_uidgid", uid) = {[pkey |-> uid, pval |-> gid]}
                  /\ Out(uidgidmap_get(r.M, uid)) = Ok(gid)
             /\ \A other \in Ids \ {uid} :
                  Lookup(r.M, "ht_uidgid", other) = Lookup(S, "ht_uidgid", other)
             /\ f = <<0, 0>> => r.status = "ID_MAPPER_SUCCESS"

\* C14 (2): when a thread returns from a successful uidgidmap_add(uid, gid),
\* the map holds gid for uid, whatever calls of other threads are under way;
\* and the entry of a uid changes only when a uidgidmap_add on that uid
\* returns, or by leaving the table
C14_SetStep ==
    /\ \A t \in Threads :
         (AddReturns(t) /\ loc'[t].status = "ID_MAPPER_SUCCESS") =>
             MappedNext(loc[t].key) = {[pkey |-> loc[t].key, pval |-> loc[t].val]}
    /\ \A uid \in Ids :
         MappedNext(uid) # Mapped(uid) =>
             \/ MappedNext(uid) = {}
             \/ \E t \in Threads :
                  /\ AddReturns(t)
                  /\ loc[t].key = uid
                  /\ MappedNext(uid) = {[pkey |-> uid, pval |-> loc[t].val]}

\* C14: uidgidmap_add always overwrites: the map holds at most one entry per
\* uid, which is the gid of the last uidgidmap_add on that uid that returned,
\* by whichever thread; uidgidmap_add returns ID_MAPPER_SUCCESS unless the
\* store reports an error other than key-already-exists
C14_DirectSetOverwrites == [](C14_SetState) /\ [][C14_SetStep]_vars

\* two threads have returned from a successful uidgidmap_add on the same uid
\* with different gids, and the map holds one entry for it
C14_Witness ==
    /\ \A t \in Threads : pc[t] = "idle" /\ loc[t].status = "ID_MAPPER_SUCCESS"
    /\ \E t1 \in Threads, t2 \in Threads :
         /\ loc[t1].key = loc[t2].key
         /\ loc[t1].val # loc[t2].val
         /\ Mapped(loc[t1].key) = {[pkey |-> loc[t1].key, pval |-> loc[t2].val]}
         /\ Out(uidgidmap_get(S, loc[t1].key)) = Ok(loc[t2].val)

\* -------------------------------------------------------------------- removal
\* the entries of tbl for other keys than key
Others(M, tbl, key) == {e \in View(M, tbl) : e.key # key}

\* tbl lost what it held for key, and nothing else changed in any table
OnlyRemoved(M, tbl, key) ==
    /\ View(M, tbl) = Others(S, tbl, key)
    /\ \A other \in (FwdTables \cup RevTables) \ {tbl} : View(M, other) = View(S, other)
    /\ M.ht["ht_uidgid"] = S.ht["ht_uidgid"]

\* C15: a remove of a stored key returns ID_MAPPER_SUCCESS and a get of the
\* key then returns ID_MAPPER_NOT_FOUND at any later time (uidgidmap_get(0)
\* returns gid 0); a remove of a key that is not stored returns
\* ID_MAPPER_NOT_FOUND and leaves the tables as they were; the entries of
\* other keys and other tables are unchanged in both cases
C15_RemoveThenGet ==
    /\ \A tbl \in FwdTables, k \in Names :
         LET r == idmap_remove(S, tbl, k)
         IN  IF Lookup(S, tbl, k) # {}
             THEN /\ r.status = "ID_MAPPER_SUCCESS"
                  /\ \A t \in Later : Out(idmap_get(r.M, tbl, k, t)) = NotFound
                  /\ OnlyRemoved(r.M, tbl, k)
             ELSE /\ r.status = "ID_MAPPER_NOT_FOUND"
                  /\ r.M = S
    /\ \A tbl \in RevTables, k \in Ids :
         LET r == namemap_remove(S, tbl, k)
         IN  IF Lookup(S, tbl, k) # {}
             THEN /\ r.status = "ID_MAPPER_SUCCESS"
                  /\ \A t \in Later, size \in BufSizes :
                       namemap_get(r.M, tbl, k, size, t).status = "ID_MAPPER_NOT_FOUND"
                  /\ OnlyRemoved(r.M, tbl, k)
             ELSE /\ r.status = "ID_MAPPER_NOT_FOUND"
                  /\ r.M = S
    /\ \A uid \in Ids, gid \in Ids :
         LET M1 == uidgidmap_add(S, uid, gid).M
             r  == uidgidmap_remove(M1, uid)
             a  == uidgidmap_remove(r.M, uid)
         IN  /\ r.status = "ID_MAPPER_SUCCESS"
             /\ Out(uidgidmap_get(r.M, uid)) = IF uid = 0 THEN Ok(0) ELSE NotFound
             /\ \A other \in Ids \ {uid} :
                  Lookup(r.M, "ht_uidgid", other) = Lookup(S, "ht_uidgid", other)
             /\ \A tbl \in FwdTables \cup RevTables : View(r.M, tbl) = View(S, tbl)
             /\ a.status = "ID_MAPPER_NOT_FOUND"
             /\ a.M = r.M

\* a stale entry is removed from a forward table that holds two keys and a
\* name from a reverse table, while the direct map holds an entry: the
\* removed keys miss and the other key is still answered
C15_Witness ==
    /\ now > 0
    /\ S.ht["ht_uidgid"] # {}
    /\ \E k \in Names, k2 \in Names :
         /\ k # k2
         /\ Lookup(S, "ht_pwnam", k) # {}
         /\ Lookup(S, "ht_pwnam", k2) # {}
         /\ idmap_get(S, "ht_pwnam", k, now).status = "ID_MAPPER_CACHE_EXPIRE"
         /\ idmap_remove(S, "ht_pwnam", k).status = "ID_MAPPER_SUCCESS"
         /\ Out(idmap_get(idmap_remove(S, "ht_pwnam", k).M, "ht_pwnam", k, now)) = NotFound
         /\ idmap_get(idmap_remove(S, "ht_pwnam", k).M, "ht_pwnam", k2, now).status
              = idmap_get(S, "ht_pwnam", k2, now).status
    /\ \E i \in Ids :
         /\ Lookup(S, "ht_pwuid", i) # {}
         /\ namemap_remove(S, "ht_pwuid", i).status = "ID_MAPPER_SUCCESS"
         /\ namemap_get(namemap_remove(S, "ht_pwuid", i).M, "ht_pwuid", i, 2, now).status
              = "ID_MAPPER_NOT_FOUND"

\* ---------------------------------------------------- loading a configuration
\* SpecLoad: one thread populates the two domains from configuration files
\* while the clock advances; no fault is injected.  The values of a block
\* are the numbers 0 and 1, a word, a number followed by a letter, 2^32, and
\* 10^20, which no unsigned long holds.
ValueSeq ==
    << <<"0">>, <<"1">>, <<"x">>, <<"1", "x">>,
       <<"4", "2", "9", "4", "9", "6", "7", "2", "9", "6">>,
       <<"1", "0", "0", "0", "0", "0", "0", "0", "0", "0", "0",
         "0", "0", "0", "0", "0", "0", "0", "0", "0", "0">> >>

Values == {ValueSeq[i] : i \in DOMAIN ValueSeq}

\* an item of a block: a variable, or a block where a variable is expected
Items == {ConfigVar(n, v) : n \in Names, v \in Values} \cup {ConfigBlock(<<>>)}

RECURSIVE SeqsUpTo(_, _)
SeqsUpTo(X, n) ==
    IF n = 0 THEN {<<>>}
    ELSE SeqsUpTo(X, n - 1) \cup
         {Append(s, x) : s \in {q \in SeqsUpTo(X, n - 1) : Len(q) = n - 1}, x \in X}

Blocks == SeqsUpTo(Items, MaxBlock)

\* the files a path can stand for: none, a file without the labels, a file
\* where the labels are variables, and the files with the same block under
\* both labels
Files ==
    {NoFile, ConfigFile(NoItem, NoItem),
     ConfigFile(ConfigVar(NameSeq[1], ValueSeq[1]), ConfigVar(NameSeq[1], ValueSeq[1]))}
    \cup {ConfigFile(ConfigBlock(b), ConfigBlock(b)) : b \in Blocks}

MapTypes == {"UIDMAP_TYPE", "GIDMAP_TYPE", "OTHER_TYPE"}

InitLoad ==
    /\ ht = EmptyTables
    /\ heap = [a \in 1..LoadHeap |-> FreeCell]
    /\ now = 0
    /\ aborted = FALSE
    /\ badfree = FALSE
    /\ pc = [t \in Threads |-> "idle"]
    /\ loc = [t \in Threads |-> NoCall]

IdmapPopulate ==
    \E path \in Files, maptype \in MapTypes, libc \in LibcNoConversion :
        /\ ~aborted
        /\ Finish(idmap_populate(Mach(0, 0), path, maptype, libc, now))
        /\ UNCHANGED <<pc, loc>>

NextLoad ==
    \/ IdmapPopulate
    \/ Tick

SpecLoad == InitLoad /\ [][NextLoad]_vars

\* the two tables idmap_populate fills for a map type
LoadTypes == {"UIDMAP_TYPE", "GIDMAP_TYPE"}

FwdOf(maptype) == IF maptype = "UIDMAP_TYPE" THEN "ht_pwnam" ELSE "ht_grnam"

RevOf(maptype) == IF maptype = "UIDMAP_TYPE" THEN "ht_pwuid" ELSE "ht_grgid"

\* idmap_populate called now on a file that holds the block b
Load(b, maptype, libc) ==
    idmap_populate(S, ConfigFile(ConfigBlock(b), ConfigBlock(b)), maptype, libc, now)

\* the value string is a decimal number, and the number it writes
IsDecimal(v) == v # <<>> /\ \A i \in DOMAIN v : IsDigit(v[i])

Number(v) == DecNorm([i \in DOMAIN v |-> DigitOf(v[i])])

\* an entry whose value is not a decimal number or is beyond 32 bits
Malformed(item) ==
    item.type = "CONFIG_ITEM_VAR" /\
        (~IsDecimal(item.value) \/ DecLess(UINT_MAX, Number(item.value)))

WellFormed(item) ==
    item.type = "CONFIG_ITEM_VAR" /\ IsDecimal(item.value)
        /\ ~DecLess(UINT_MAX, Number(item.value))

IdOf(item) == DecValue(Number(item.value))

SameTables(M1, M2) == \A tbl \in FwdTables \cup RevTables : View(M1, tbl) = View(M2, tbl)

\* C16: when the i-th entry of a block is the first whose value is not a
\* decimal number or is outside the unsigned 32-bit range, idmap_populate
\* returns ID_MAPPER_INVALID_ARGUMENT and the tables are as the entries
\* before i leave them: nothing is inserted for entry i
C16_RejectsMalformed ==
    \A b \in Blocks, maptype \in LoadTypes, libc \in LibcNoConversion :
        \A i \in DOMAIN b :
            LET r == Load(b, maptype, libc)
            IN  (Malformed(b[i]) /\ (\A j \in 1..(i - 1) : WellFormed(b[j]))
                   /\ ~r.M.exhausted)
                => /\ r.status = "ID_MAPPER_INVALID_ARGUMENT"
                   /\ SameTables(r.M, Load(SubSeq(b, 1, i - 1), maptype, libc).M)

\* a block of (name, id) pairs, and one whose names differ and whose ids differ
PairBlock(b) == \A i \in DOMAIN b : WellFormed(b[i])

Distinct(b) ==
    \A i \in DOMAIN b, j \in DOMAIN b :
        i # j => b[i].name # b[j].name /\ IdOf(b[i]) # IdOf(b[j])

EmptyDomain(maptype) == S.ht[FwdOf(maptype)] = {} /\ S.ht[RevOf(maptype)] = {}

\* for every pair of b the forward get of the name returns the id and the
\* reverse get of the id, into a buffer that holds the name, returns the name
RoundTrips(M, maptype, b) ==
    \A i \in DOMAIN b :
        /\ Out(idmap_get(M, FwdOf(maptype), b[i].name, now)) = Ok(IdOf(b[i]))
        /\ Out(namemap_get(M, RevOf(maptype), IdOf(b[i]), Room(b[i].name), now))
             = Ok(b[i].name)

\* C17 as claimed: after idmap_populate succeeds on an empty domain, for
\* every (name, id) pair of the block the forward get of name returns id and
\* the reverse get of id returns name
C17_PopulatesAnyBlock ==
    \A b \in Blocks, maptype \in LoadTypes, libc \in LibcNoConversion :
        LET r == Load(b, maptype, libc)
        IN  (PairBlock(b) /\ EmptyDomain(maptype) /\ r.status = "ID_MAPPER_SUCCESS")
                => RoundTrips(r.M, maptype, b)

\* C17 amended: after idmap_populate succeeds on an empty domain with a block
\* whose names are pairwise distinct and whose ids are pairwise distinct, for
\* every (name, id) pair of the block the forward get of name returns id and
\* the reverse get of id returns name; the loader inserts with overwrite=false
\* (an entry stored before the call keeps its value and timestamp) and
\* by idmap_add and namemap_add themselves, not by the propagation wrappers
C17_PopulatesDistinctBlock ==
    \A b \in Blocks, maptype \in LoadTypes, libc \in LibcNoConversion :
        LET r == Load(b, maptype, libc)
        IN  /\ (PairBlock(b) /\ Distinct(b) /\ EmptyDomain(maptype)
                  /\ r.status = "ID_MAPPER_SUCCESS")
                => RoundTrips(r.M, maptype, b)
            /\ ~r.M.aborted =>
                  /\ View(S, FwdOf(maptype)) \subseteq View(r.M, FwdOf(maptype))
                  /\ View(S, RevOf(maptype)) \subseteq View(r.M, RevOf(maptype))
            /\ (Len(b) = 1 /\ PairBlock(b)) =>
                  r.M = namemap_add(idmap_add(S, FwdOf(maptype), b[1].name, IdOf(b[1]),
                                              FALSE, now).M,
                                    RevOf(maptype), IdOf(b[1]), b[1].name, FALSE, now).M

\* after a tick of the clock, a block of two pairs with different names and
\* ids populates an empty domain, and both pairs resolve in both directions
C17_Witness ==
    /\ now > 0
    /\ \E b \in Blocks, maptype \in LoadTypes :
         /\ Len(b) = 2
         /\ PairBlock(b)
         /\ Distinct(b)
         /\ EmptyDomain(maptype)
         /\ Load(b, maptype, "0").status = "ID_MAPPER_SUCCESS"
         /\ RoundTrips(Load(b, maptype, "0").M, maptype, b)

\* the entry that makes idmap_populate return: not a variable, or a value
\* that strtoul or the range test rejects
Fails(item, libc) ==
    \/ config_GetKeyValue(item).err # 0
    \/ strtoul(item.value, libc).errno # "0"
    \/ DecLess(UINT_MAX, strtoul(item.value, libc).value)

FirstFailing(b, libc) ==
    CHOOSE i \in DOMAIN b :
        Fails(b[i], libc) /\ \A j \in 1..(i - 1) : ~Fails(b[j], libc)

\* the id idmap_populate inserts for an entry it accepts
ParsedId(item, libc) == DecValue(strtoul(item.value, libc).value)

\* C18: idmap_populate takes the entries in index order and returns at the
\* first one that fails; when it fails at entry i, every entry before i is
\* present in the forward and in the reverse table, no entry after i has
\* been inserted, and nothing is rolled back: the tables are as the entries
\* before i leave them
C18_PartialPopulation ==
    \A b \in Blocks, maptype \in LoadTypes, libc \in LibcNoConversion :
        LET r == Load(b, maptype, libc)
        IN  ~r.M.exhausted =>
              IF \E i \in DOMAIN b : Fails(b[i], libc)
              THEN /\ r.status = "ID_MAPPER_INVALID_ARGUMENT"
                   /\ r.var_index = FirstFailing(b, libc)
                   /\ Load(SubSeq(b, 1, r.var_index - 1), maptype, libc).status
                        = "ID_MAPPER_SUCCESS"
                   /\ SameTables(r.M, Load(SubSeq(b, 1, r.var_index - 1), maptype, libc).M)
                   /\ \A j \in 1..(r.var_index - 1) :
                        /\ Lookup(r.M, FwdOf(maptype), b[j].name) # {}
                        /\ Lookup(r.M, RevOf(maptype), ParsedId(b[j], libc)) # {}
                   /\ \A j \in (r.var_index + 1)..Len(b) :
                        (/\ Lookup(S, FwdOf(maptype), b[j].name) = {}
                         /\ \A k \in 1..(r.var_index - 1) : b[k].name # b[j].name)
                        => Lookup(r.M, FwdOf(maptype), b[j].name) = {}
              ELSE /\ r.status = "ID_MAPPER_SUCCESS"
                   /\ r.var_index = Len(b) + 1
                   /\ \A j \in DOMAIN b :
                        /\ Lookup(r.M, FwdOf(maptype), b[j].name) # {}
                        /\ Lookup(r.M, RevOf(maptype), ParsedId(b[j], libc)) # {}

\* on a domain that holds entries, a block fails at its second entry and
\* leaves the first inserted, and a block fails at its first entry and leaves
\* the second, a new name, out
C18_Witness ==
    /\ now > 0
    /\ \E maptype \in LoadTypes :
         /\ S.ht[FwdOf(maptype)] # {}
         /\ \E b \in Blocks :
              /\ Len(b) = 2
              /\ Lookup(S, FwdOf(maptype), b[1].name) = {}
              /\ Load(b, maptype, "0").status = "ID_MAPPER_INVALID_ARGUMENT"
              /\ Load(b, maptype, "0").var_index = 2
              /\ Lookup(Load(b, maptype, "0").M, FwdOf(maptype), b[1].name) # {}
         /\ \E b \in Blocks :
              /\ Len(b) = 2
              /\ WellFormed(b[2])
              /\ Lookup(S, FwdOf(maptype), b[2].name) = {}
              /\ Load(b, maptype, "0").status = "ID_MAPPER_INVALID_ARGUMENT"
              /\ Load(b, maptype, "0").var_index = 1
              /\ Lookup(Load(b, maptype, "0").M, FwdOf(maptype), b[2].name) = {}

\* ---------------------------------------------------------- gets and staleness
\* C19 (1): idmap_get, namemap_get and uidgidmap_get leave every table and
\* the heap as they were, whatever they return, so that an entry reported
\* ID_MAPPER_CACHE_EXPIRE stays stored with its value and timestamp; an add on
\* another key leaves the entries of a table in place, the stale ones too
C19_GetState ==
    /\ \A tbl \in FwdTables, k \in Names, t \in Later : idmap_get(S, tbl, k, t).M = S
    /\ \A tbl \in RevTables, k \in Ids, size \in BufSizes, t \in Later :
         namemap_get(S, tbl, k, size, t).M = S
    /\ \A uid \in Ids : uidgidmap_get(S, uid).M = S
    /\ \A tbl \in FwdTables, k \in Names, v \in Ids, ow \in BOOLEAN :
         LET r == idmap_add(S, tbl, k, v, ow, now)
         IN  ~r.M.aborted => Others(r.M, tbl, k) = Others(S, tbl, k)
    /\ \A tbl \in RevTables, k \in Ids, v \in Names, ow \in BOOLEAN :
         LET r == namemap_add(S, tbl, k, v, ow, now)
         IN  ~r.M.aborted => Others(r.M, tbl, k) = Others(S, tbl, k)

\* C19 (2): the passing of time takes nothing out of a table
C19_ClockStep == now' # now => (ht' = ht /\ heap' = heap)

\* C19: a get is read-only, ID_MAPPER_CACHE_EXPIRE leaves the entry stored
\* with the same value and timestamp, and an entry leaves a table only by a
\* remove or an add on its key, never because it is stale
C19_GetReadOnly == [](C19_GetState) /\ [][C19_ClockStep]_vars

\* an expired entry in a forward and in a reverse table, each reported
\* ID_MAPPER_CACHE_EXPIRE and still stored after the get
C19_Witness ==
    /\ \E tbl \in FwdTables, k \in Names :
         /\ idmap_get(S, tbl, k, now).status = "ID_MAPPER_CACHE_EXPIRE"
         /\ Lookup(idmap_get(S, tbl, k, now).M, tbl, k) = Lookup(S, tbl, k)
         /\ EntryOf(idmap_get(S, tbl, k, now).M, tbl, k) = EntryOf(S, tbl, k)
    /\ \E tbl \in RevTables, k \in Ids :
         /\ namemap_get(S, tbl, k, 2, now).status = "ID_MAPPER_CACHE_EXPIRE"
         /\ EntryOf(namemap_get(S, tbl, k, 2, now).M, tbl, k) = EntryOf(S, tbl, k)

\* ------------------------------------------------------------ argument errors
\* a call that meets a fault at its first allocation and at its first store
\* insert
Armed == Mach(1, 1)

Invalid(r) == r.status = "ID_MAPPER_INVALID_ARGUMENT" /\ r.M = Armed

\* C20: idmap_add, idmap_get and idmap_remove with a null table or a null
\* key, namemap_add with a null table or a null name, namemap_get with a null
\* table or a null buffer and namemap_remove with a null table return
\* ID_MAPPER_INVALID_ARGUMENT; they allocate nothing, insert nothing into the
\* store, and leave every table as it was
C20_ArgumentErrors ==
    /\ \A tbl \in FwdTables \cup {NullTable}, key \in FaultNames :
         (tbl = NullTable \/ key = NullStr) =>
             /\ \A v \in Ids, ow \in BOOLEAN : Invalid(idmap_add(Armed, tbl, key, v, ow, now))
             /\ Invalid(idmap_get(Armed, tbl, key, now))
             /\ idmap_get(Armed, tbl, key, now).val = -1
             /\ Invalid(idmap_remove(Armed, tbl, key))
    /\ \A tbl \in RevTables \cup {NullTable}, key \in Ids :
         /\ \A val \in FaultNames, ow \in BOOLEAN :
              (tbl = NullTable \/ val = NullStr) =>
                  Invalid(namemap_add(Armed, tbl, key, val, ow, now))
         /\ \A size \in BufSizes \cup {NULL} :
              (tbl = NullTable \/ size = NULL) =>
                  /\ Invalid(namemap_get(Armed, tbl, key, size, now))
                  /\ namemap_get(Armed, tbl, key, size, now).val = NullStr
         /\ tbl = NullTable => Invalid(namemap_remove(Armed, tbl, key))

\* on tables that hold entries, an idmap_add with a null key and a namemap_add
\* with a null name are refused, where the same calls with a name allocate
C20_Witness ==
    /\ S.ht["ht_pwnam"] # {}
    /\ S.ht["ht_pwuid"] # {}
    /\ \E i \in Ids :
         /\ Invalid(idmap_add(Armed, "ht_pwnam", NullStr, i, FALSE, now))
         /\ Invalid(namemap_add(Armed, "ht_pwuid", i, NullStr, FALSE, now))
         /\ Invalid(idmap_get(Armed, NullTable, NameSeq[1], now))
         /\ idmap_add(Armed, "ht_pwnam", NameSeq[1], i, FALSE, now).M.aborted

\* ------------------------------------------- allocations of a reverse overwrite
\* C21: namemap_add(ht, id, name, overwrite=true) on an existing entry frees
\* no string and duplicates none when name equals the stored name; it frees
\* exactly one cell, the old name, and allocates exactly one, a copy of the
\* new name, when the names differ; in both cases the entry keeps the
\* idmap_val it had
C21_OverwriteAllocations ==
    \A tbl \in RevTables, k \in Ids, v \in Names :
        Lookup(S, tbl, k) # {} =>
            LET old == Stored(S, tbl, k).pval
                r   == namemap_add(S, tbl, k, v, TRUE, now)
            IN  /\ r.status = "ID_MAPPER_SUCCESS"
                /\ Stored(r.M, tbl, k).pval = old
                /\ r.M.heap[old].kind = "val"
                /\ NameOf(r.M, old) = v
                /\ ~r.M.badfree
                /\ IF NameOf(S, old) = v
                   THEN /\ r.M.nalloc = 0
                        /\ r.M.nfree = 0
                        /\ r.M.heap[old].u = S.heap[old].u
                   ELSE /\ r.M.nalloc = 1
                        /\ r.M.nfree = 1
                        /\ gsh_free(S, S.heap[old].u).nfree = 1
                        /\ r.M.heap[r.M.heap[old].u] = StrCell(v)

\* an id is stored with a stale name in ht_pwuid: overwriting it with the
\* same name allocates and frees nothing, with another name one cell each
C21_Witness ==
    \E k \in Ids, v \in Names, w \in Names :
        /\ Lookup(S, "ht_pwuid", k) # {}
        /\ now > EntryOf(S, "ht_pwuid", k).timestamp
        /\ NameOf(S, Stored(S, "ht_pwuid", k).pval) = v
        /\ w # v
        /\ namemap_add(S, "ht_pwuid", k, v, TRUE, now).M.nalloc = 0
        /\ namemap_add(S, "ht_pwuid", k, v, TRUE, now).M.nfree = 0
        /\ namemap_add(S, "ht_pwuid", k, w, TRUE, now).M.nalloc = 1
        /\ namemap_add(S, "ht_pwuid", k, w, TRUE, now).M.nfree = 1

\* C28: idmap_add and namemap_add with overwrite = FALSE for a key that has
\* an entry return ID_MAPPER_SUCCESS and leave the table, the stored value
\* and the stored timestamp as they were, so that an expired entry stays
\* expired and a different stored value stays in place; the key, entry and
\* name allocated for the insert are freed again
C28_SilentNoOp ==
    /\ \A tbl \in FwdTables, k \in Names, v \in Ids :
        Lookup(S, tbl, k) # {} =>
            LET r == idmap_add(S, tbl, k, v, FALSE, now)
            IN  ~r.M.exhausted =>
                /\ r.status = "ID_MAPPER_SUCCESS"
                /\ r.M.ht = S.ht
                /\ r.M.heap = S.heap
                /\ EntryOf(r.M, tbl, k) = EntryOf(S, tbl, k)
                /\ Out(idmap_get(r.M, tbl, k, now)) = Out(idmap_get(S, tbl, k, now))
                /\ r.M.nalloc = 2 /\ r.M.nfree = 2
                /\ ~r.M.badfree /\ ~r.M.aborted
    /\ \A tbl \in RevTables, k \in Ids, v \in Names :
        Lookup(S, tbl, k) # {} =>
            LET r == namemap_add(S, tbl, k, v, FALSE, now)
            IN  ~r.M.exhausted =>
                /\ r.status = "ID_MAPPER_SUCCESS"
                /\ r.M.ht = S.ht
                /\ r.M.heap = S.heap
                /\ EntryOf(r.M, tbl, k) = EntryOf(S, tbl, k)
                /\ Out(namemap_get(r.M, tbl, k, 3, now)) = Out(namemap_get(S, tbl, k, 3, now))
                /\ r.M.nalloc = 2 /\ r.M.nfree = 2
                /\ ~r.M.badfree /\ ~r.M.aborted

\* a name is stored in ht_pwnam with an id and has expired, and an id is
\* stored in ht_pwuid with a name: adding another id, and another name,
\* without overwrite reports success, and the gets answer as before
C28_Witness ==
    \E k \in Names, v \in Ids, i \in Ids, w \in Names :
        /\ Lookup(S, "ht_pwnam", k) # {}
        /\ EntryOf(S, "ht_pwnam", k).u # v
        /\ Out(idmap_get(S, "ht_pwnam", k, now)).status = "ID_MAPPER_CACHE_EXPIRE"
        /\ ~idmap_add(S, "ht_pwnam", k, v, FALSE, now).M.exhausted
        /\ idmap_add(S, "ht_pwnam", k, v, FALSE, now).status = "ID_MAPPER_SUCCESS"
        /\ Out(idmap_get(idmap_add(S, "ht_pwnam", k, v, FALSE, now).M, "ht_pwnam", k, now)).status
              = "ID_MAPPER_CACHE_EXPIRE"
        /\ Lookup(S, "ht_pwuid", i) # {}
        /\ NameOf(S, Stored(S, "ht_pwuid", i).pval) # w
        /\ ~namemap_add(S, "ht_pwuid", i, w, FALSE, now).M.exhausted
        /\ namemap_add(S, "ht_pwuid", i, w, FALSE, now).status = "ID_MAPPER_SUCCESS"
        /\ Out(namemap_get(namemap_add(S, "ht_pwuid", i, w, FALSE, now).M, "ht_pwuid", i, 3, now))
              = Ok(NameOf(S, Stored(S, "ht_pwuid", i).pval))

\* the keys table tbl holds in M
KeysOf(M, tbl) == {v.key : v \in View(M, tbl)}

\* name n is mapped to id i1 and then to id i2 by two propagating overwrites
\* of one thread: ht_pwnam maps n to i2, ht_pwuid maps i2 to n and still
\* maps i1 to n
Remapped(n, i1, i2) ==
    LET r1 == uidmap_add(S, n, i1, TRUE, TRUE, now)
        r2 == uidmap_add(r1.M, n, i2, TRUE, TRUE, now)
    IN  ~r2.M.exhausted =>
            /\ r1.status = "ID_MAPPER_SUCCESS"
            /\ r2.status = "ID_MAPPER_SUCCESS"
            /\ Out(uidmap_get(r2.M, n, now)) = Ok(i2)
            /\ Out(unamemap_get(r2.M, i2, 3, now)) = Ok(n)
            /\ Lookup(r2.M, "ht_pwuid", i1) # {}
            /\ Out(unamemap_get(r2.M, i1, 3, now)) = Ok(n)

\* every key that tbl held before the wrapper ran is still held in what the
\* wrapper left, r
KeysKept(r, tbl) == r.M.aborted \/ KeysOf(S, tbl) \subseteq KeysOf(r.M, tbl)

\* the wrapper that wrote key k of tbl and left r left every entry of
\* another key as it was, and the entry of k is gone only if the write to
\* tbl failed
OthersKept(r, tbl, k, rc) ==
    \/ r.M.aborted
    \/ /\ {v \in View(S, tbl) : v.key # k} \subseteq View(r.M, tbl)
       /\ (rc = "ID_MAPPER_SUCCESS" /\ k \in KeysOf(S, tbl)) => k \in KeysOf(r.M, tbl)

RaceNames == {NameSeq[1]}
RaceIds == {IdSeq[1]}

\* the cells a thread at position p of a call holds in its locals: a writer
\* the entry it builds or took (without the name it has freed), a reader
\* the idmap_val it was handed
PointersOf(M, p, call) ==
    IF p = "idle" THEN <<>>
    ELSE IF call.op = "get" \/ p = "freed" THEN <<call.local_val>>
    ELSE IF call.tbl \in FwdTables THEN <<call.buffkey, call.local_val>>
    ELSE <<call.local_val, M.heap[call.local_val].u>>

\* the locals of a call keep the name and the id it was given apart, the key
\* of a forward table and the value of a reverse table being names
NameOfCall(tbl, key, val) == IF tbl \in FwdTables THEN key ELSE val

IdOfCall(tbl, key, val) == IF tbl \in FwdTables THEN val ELSE key

KeyOf(call) == IF call.tbl \in FwdTables THEN call.name ELSE call.id

ValOf(call) == IF call.tbl \in FwdTables THEN call.id ELSE call.name

\* the idmap_val of a reverse table that a writer holds
RevValsOf(p, call) ==
    IF p # "idle" /\ call.op = "add" /\ call.tbl \in RevTables THEN {call.local_val} ELSE {}

\* the locals of a call with its pointers renumbered by pos
Moved(call, pos) ==
    [call EXCEPT !.buffkey = IF call.tbl \in FwdTables THEN pos[@] ELSE @,
                 !.local_val = pos[@]]

\* the process goes on from heap and tables M with its threads at positions
\* p with locals l; the cells are renumbered (see Canon), ord listing the
\* cells that the tables and the locals reach and pos their new addresses
SettledAt(M, p, l, ord, pos) ==
    /\ Commit(CanonOrd(M, ord, RevVals(M) \cup UNION {RevValsOf(p[t], l[t]) : t \in Threads}))
    /\ pc' = p
    /\ loc' = [t \in Threads |-> Moved(l[t], pos)]

SettledOrd(M, p, l, ord) == SettledAt(M, p, l, ord, Renumber(M, ord))

Settled(M, p, l) ==
    SettledOrd(M, p, l, Reached(M, Flatten([t \in Threads |-> PointersOf(M, p[t], l[t])])))

\* thread t goes on from M at position p with the locals call
Step(t, M, p, call) == Settled(M, [pc EXCEPT ![t] = p], [loc EXCEPT ![t] = call])

\* the result of HashTable_Get_and_Del for an entry a thread holds
Took(t) ==
    [M |-> S, rc |-> "HASHTABLE_SUCCESS", key |-> loc[t].buffkey, val |-> loc[t].local_val]

\* thread t enters add(tbl, key, val, overwrite): gd is what
\* HashTable_Get_and_Del returns and a the new insert built when the
\* overwrite branch is not taken
AddBegins(t, tbl, key, val, overwrite, gd, a) ==
    /\ pc[t] = "idle"
    /\ ~aborted
    /\ IF overwrite /\ gd.rc = "HASHTABLE_SUCCESS"
       THEN Step(t, gd.M, "taken",
                 [NoCall EXCEPT !.op = "add", !.tbl = tbl, !.name = NameOfCall(tbl, key, val),
                                !.id = IdOfCall(tbl, key, val),
                                !.overwrite = TRUE, !.buffkey = gd.key,
                                !.local_val = gd.val])
       ELSE /\ a.jump = "found"
            /\ ~a.M.exhausted
            /\ Cardinality(FreeAddrs(a.M)) >= Cardinality({u \in Threads : pc[u] = "freed"})
            /\ Step(t, a.M, "found",
                    [NoCall EXCEPT !.op = "add", !.tbl = tbl, !.name = NameOfCall(tbl, key, val),
                                !.id = IdOfCall(tbl, key, val),
                                   !.overwrite = overwrite, !.buffkey = a.buffkey,
                                   !.local_val = a.local_val,
                                   !.absent = (Lookup(S, tbl, key) = {})])

\* thread t has updated the entry it took and is at the label found
AddWrites(t, a) ==
    /\ a.jump = "found"
    /\ Step(t, a.M, "found", loc[t])

\* thread t returns r.status, and its locals are gone
Returns(t, r) == Step(t, r.M, "idle", [NoCall EXCEPT !.status = r.status])

IdmapAddBegin(t) ==
    \E key \in RaceNames, val \in Ids, overwrite \in BOOLEAN :
        AddBegins(t, "ht_pwnam", key, val, overwrite,
                  HashTable_Get_and_Del(S, "ht_pwnam", key),
                  idmap_add_new(S, key, val, now))

IdmapAddWrite(t) ==
    /\ pc[t] = "taken"
    /\ loc[t].tbl \in FwdTables
    /\ AddWrites(t, idmap_add_reuse(Took(t), KeyOf(loc[t]), ValOf(loc[t]), now))

IdmapAddReturn(t) ==
    /\ pc[t] = "found"
    /\ loc[t].tbl \in FwdTables
    /\ Returns(t, idmap_add_set(S, loc[t].tbl, loc[t].buffkey, loc[t].local_val))

NamemapAddBegin(t) ==
    \E key \in RaceIds, val \in Names, overwrite \in BOOLEAN :
        AddBegins(t, "ht_pwuid", key, val, overwrite,
                  HashTable_Get_and_Del(S, "ht_pwuid", key),
                  namemap_add_new(S, key, val, now))

\* the strcmp of the stored name with the new one, and the gsh_free of a
\* stored name that differs
NamemapAddWrite(t) ==
    /\ pc[t] = "taken"
    /\ loc[t].tbl \in RevTables
    /\ IF NameOf(S, loc[t].local_val) # ValOf(loc[t])
       THEN Step(t, gsh_free(S, heap[loc[t].local_val].u), "freed", loc[t])
       ELSE AddWrites(t, namemap_add_reuse(Took(t), KeyOf(loc[t]), ValOf(loc[t]), now))

\* the gsh_strdup of the new name into the entry whose name was freed
NamemapAddRename(t) ==
    /\ pc[t] = "freed"
    /\ AddWrites(t, namemap_add_rename(Took(t), gsh_strdup(S, ValOf(loc[t])), now))

NamemapAddReturn(t) ==
    /\ pc[t] = "found"
    /\ loc[t].tbl \in RevTables
    /\ Returns(t, namemap_add_set(S, loc[t].tbl, loc[t].buffkey, loc[t].local_val))

\* the threads that hold the entry of key, taken out of tbl to overwrite it
Overwriters(tbl, key) ==
    {u \in Threads : /\ pc[u] \in {"taken", "freed", "found"}
                     /\ loc[u].tbl = tbl /\ KeyOf(loc[u]) = key
                     /\ loc[u].overwrite /\ ~loc[u].absent}

\* thread t enters get(tbl, key) and HashTable_Get returns g: a miss
\* returns at once, a hit leaves the thread with the pointer to the entry
GetBegins(t, tbl, key, g) ==
    /\ pc[t] = "idle"
    /\ ~aborted
    /\ IF g.rc = "HASHTABLE_SUCCESS"
       THEN Step(t, S, "got", [NoCall EXCEPT !.op = "get", !.tbl = tbl,
                                             !.name = NameOfCall(tbl, key, NullStr),
                                             !.id = IdOfCall(tbl, key, -1),
                                             !.local_val = g.val])
       ELSE Step(t, S, "idle", [NoCall EXCEPT !.status = "ID_MAPPER_NOT_FOUND"])

\* the result of HashTable_Get for the entry thread t points to
Got(t) == [rc |-> "HASHTABLE_SUCCESS", val |-> loc[t].local_val]

\* thread t returns from a get with what it read
GetReturns(t, r) ==
    Step(t, S, "idle",
         [NoCall EXCEPT !.status = r.status,
                        !.name = IF loc[t].tbl \in RevTables THEN r.val ELSE NullStr,
                        !.id = IF loc[t].tbl \in RevTables THEN -1 ELSE r.val])

\* the cell at p is an idmap_val of a forward table, or one of a reverse
\* table with its name
IsVal(M, p) == M.heap[p].kind = "val"

IsNamedVal(M, p) ==
    /\ IsVal(M, p)
    /\ M.heap[p].u \in DOMAIN M.heap
    /\ M.heap[M.heap[p].u].kind = "str"

IdmapGetBegin(t) ==
    \E key \in RaceNames :
        GetBegins(t, "ht_pwnam", key, HashTable_Get(S, "ht_pwnam", key))

\* the reads of entry->timestamp and entry->real_id; a read of freed memory
\* returns whatever the memory holds by then
IdmapGetRead(t) ==
    /\ pc[t] = "got"
    /\ loc[t].tbl \in FwdTables
    /\ IF IsVal(S, loc[t].local_val)
       THEN GetReturns(t, idmap_get_entry(S, Got(t), now))
       ELSE \E v \in Ids :
                \/ GetReturns(t, Ok(v))
                \/ GetReturns(t, [status |-> "ID_MAPPER_CACHE_EXPIRE", val |-> -1])

NamemapGetBegin(t) ==
    \E key \in RaceIds :
        GetBegins(t, "ht_pwuid", key, HashTable_Get(S, "ht_pwuid", key))

\* the reads of entry->timestamp and entry->name and the copy of the name
\* into a buffer that holds every name; a read of freed memory returns
\* whatever the memory holds by then
NamemapGetRead(t) ==
    /\ pc[t] = "got"
    /\ loc[t].tbl \in RevTables
    /\ IF IsNamedVal(S, loc[t].local_val)
       THEN GetReturns(t, namemap_get_entry(S, Got(t), 3, now))
       ELSE \E v \in Names :
                \/ GetReturns(t, Ok(v))
                \/ GetReturns(t, [status |-> "ID_MAPPER_CACHE_EXPIRE", val |-> NullStr])

\* the clock advances while calls are under way, until the entries written
\* at the start are stale
RaceTick ==
    /\ now < IdmapCacheTimeout
    /\ now' = now + 1
    /\ UNCHANGED <<ht, heap, aborted, badfree, pc, loc>>

NextRace ==
    \/ \E t \in Threads : IdmapAddBegin(t)
    \/ \E t \in Threads : IdmapAddWrite(t)
    \/ \E t \in Threads : IdmapAddReturn(t)
    \/ \E t \in Threads : NamemapAddBegin(t)
    \/ \E t \in Threads : NamemapAddWrite(t)
    \/ \E t \in Threads : NamemapAddRename(t)
    \/ \E t \in Threads : NamemapAddReturn(t)
    \/ \E t \in Threads : IdmapGetBegin(t)
    \/ \E t \in Threads : IdmapGetRead(t)
    \/ \E t \in Threads : NamemapGetBegin(t)
    \/ \E t \in Threads : NamemapGetRead(t)
    \/ RaceTick

SpecRace == Init /\ [][NextRace]_vars

\* ------------------------------------------------ calls under fair scheduling
\* a thread inside a call runs whenever it is scheduled: the code takes no
\* lock and waits for no condition
Runs_alone(t) == pc[t] # "idle" /\ \A u \in Threads \ {t} : pc[u] = "idle"

Runs(t) == pc[t] # "idle"

\* the next step of the call thread t is in
Proceed(t) ==
    /\ Runs(t)
    /\ \/ IdmapAddWrite(t)
       \/ IdmapAddReturn(t)
       \/ NamemapAddWrite(t)
       \/ NamemapAddRename(t)
       \/ NamemapAddReturn(t)
       \/ IdmapGetRead(t)
       \/ NamemapGetRead(t)

\* idmap_remove and namemap_remove: one store call and the free of the key
RemoveCall(t) ==
    /\ pc[t] = "idle"
    /\ ~aborted
    /\ \/ \E key \in RaceNames : Returns(t, idmap_remove(S, "ht_pwnam", key))
       \/ \E key \in RaceIds : Returns(t, namemap_remove(S, "ht_pwuid", key))

\* namemap_clear, idmap_clear and uidgidmap_clear: one store call each
ClearCall(t) ==
    /\ pc[t] = "idle"
    /\ ~aborted
    /\ \/ Returns(t, namemap_clear(S))
       \/ Returns(t, idmap_clear(S))
       \/ Returns(t, uidgidmap_clear(S))

\* uidgidmap_add, uidgidmap_get and uidgidmap_remove: one store call each
DirectCall(t) ==
    /\ pc[t] = "idle"
    /\ ~aborted
    /\ \E key \in RaceIds :
        \/ \E value \in RaceIds : Returns(t, uidgidmap_add(S, key, value))
        \/ GetReturns(t, uidgidmap_get(S, key))
        \/ Returns(t, uidgidmap_remove(S, key))

\* the scheduler gives thread t a turn and the thread leaves its position
Advance(t) ==
    /\ Runs(t)
    /\ pc' \in [Threads -> {"idle", "taken", "freed", "found", "got"}]
    /\ pc'[t] # pc[t]

NextLive ==
    \/ \E t \in Threads : IdmapAddBegin(t)
    \/ \E t \in Threads : NamemapAddBegin(t)
    \/ \E t \in Threads : IdmapGetBegin(t)
    \/ \E t \in Threads : NamemapGetBegin(t)
    \/ \E t \in Threads : Proceed(t)
    \/ \E t \in Threads : RemoveCall(t)
    \/ \E t \in Threads : ClearCall(t)
    \/ \E t \in Threads : DirectCall(t)

SpecLive == Init /\ [][NextLive]_vars /\ \A t \in Threads : WF_pc(Advance(t))

\* the step a thread inside a call takes next is enabled whatever the other
\* threads do: the update of a taken entry reaches the label found and the
\* allocator has a cell for the new name
Unblocked ==
    \A t \in Threads :
        /\ (pc[t] = "taken" /\ loc[t].tbl \in FwdTables)
               => idmap_add_reuse(Took(t), KeyOf(loc[t]), ValOf(loc[t]), now).jump = "found"
        /\ (pc[t] = "taken" /\ loc[t].tbl \in RevTables
                            /\ NameOf(S, loc[t].local_val) = ValOf(loc[t]))
               => namemap_add_reuse(Took(t), KeyOf(loc[t]), ValOf(loc[t]), now).jump = "found"
        /\ pc[t] = "freed"
               => namemap_add_rename(Took(t), gsh_strdup(S, ValOf(loc[t])), now).jump = "found"
        /\ pc[t] \in {"idle", "taken", "freed", "found", "got"}

Writers == {t \in Threads : pc[t] # "idle" /\ loc[t].op = "add"}

Readers == {t \in Threads : pc[t] = "got"}

\* the cells the tables and the writers own, in the order of Reached
Owned ==
    Reached(S, Flatten([t \in Threads |->
                IF t \in Writers THEN PointersOf(S, pc[t], loc[t]) ELSE <<>>]))

OwnedCells == {Owned[j] : j \in DOMAIN Owned}

\* the writers whose locals point to cell a
Holders(a) ==
    {t \in Writers : \E j \in DOMAIN PointersOf(S, pc[t], loc[t]) :
                        PointersOf(S, pc[t], loc[t])[j] = a}

\* C23: under every interleaving of idmap_add and namemap_add calls of both
\* overwrite modes, each table holds at most one entry per key; no key
\* string, name string or idmap_val is freed twice; every allocated cell is
\* owned by an entry of a table or by a call under way, and by one of them
\* only, so that once all calls have returned the allocated cells are
\* exactly those of the entries the tables store
C23_HeapOwnership ==
    /\ ~badfree
    /\ \A k \in Names : Cardinality(Lookup(S, "ht_pwnam", k)) <= 1
    /\ \A k \in Ids : Cardinality(Lookup(S, "ht_pwuid", k)) <= 1
    /\ OwnedCells = {a \in DOMAIN heap : heap[a].kind # "free"}
    /\ \A a \in OwnedCells :
         /\ Cardinality(Holders(a)) <= 1
         /\ Holders(a) # {} =>
               \A tbl \in FwdTables \cup RevTables : \A e \in ht[tbl] :
                   \A j \in DOMAIN CellsOfEntry(S, tbl, e) : CellsOfEntry(S, tbl, e)[j] # a
    /\ Writers = {} => Leaked(S, <<>>) = {}

\* two writers are at the label found for the same key of a table that
\* stores it: one took the stored entry out to overwrite it and lost the
\* race, the other built a new entry
C23_Witness ==
    \E t1 \in Threads, t2 \in Threads :
        /\ pc[t1] = "found" /\ pc[t2] = "found"
        /\ loc[t1].op = "add" /\ loc[t2].op = "add"
        /\ loc[t1].tbl = loc[t2].tbl
        /\ KeyOf(loc[t1]) = KeyOf(loc[t2])
        /\ loc[t1].overwrite /\ ~loc[t1].absent
        /\ ~loc[t2].overwrite
        /\ Lookup(S, loc[t1].tbl, KeyOf(loc[t1])) # {}
        /\ Cardinality(OwnedCells) = 6

\* thread t took the entry of its key out of the table to overwrite it, has
\* updated it, and the table holds an entry for the key again
LostRace(t) ==
    /\ pc[t] = "found"
    /\ loc[t].op = "add"
    /\ loc[t].overwrite /\ ~loc[t].absent
    /\ Lookup(S, loc[t].tbl, KeyOf(loc[t])) # {}

\* the rest of the add of thread t, from the label found on
Reinsert(t) ==
    IF loc[t].tbl \in FwdTables
    THEN idmap_add_set(S, loc[t].tbl, loc[t].buffkey, loc[t].local_val)
    ELSE namemap_add_set(S, loc[t].tbl, loc[t].buffkey, loc[t].local_val)

\* what a get of the key of thread t returns in state M
GetOf(M, t) ==
    IF loc[t].tbl \in FwdTables
    THEN Out(idmap_get(M, loc[t].tbl, KeyOf(loc[t]), now))
    ELSE Out(namemap_get(M, loc[t].tbl, KeyOf(loc[t]), 3, now))

\* C24: when thread A runs add(k, vA, overwrite=true), takes the entry of k
\* out of the table, and thread B inserts an entry for k before A reinserts,
\* the reinsert of A fails with key-already-exists, A frees the key and the
\* entry it took and returns ID_MAPPER_SUCCESS, and the table keeps the entry
\* of B, which a get(k) after the return of A answers with
C24_OverwriterDiscarded ==
    \A t \in Threads :
        LostRace(t) =>
            /\ HashTable_Test_And_Set(S, loc[t].tbl, loc[t].buffkey, loc[t].local_val,
                                       "HASHTABLE_SET_HOW_SET_NO_OVERWRITE").rc
                  = "HASHTABLE_ERROR_KEY_ALREADY_EXISTS"
            /\ Reinsert(t).status = "ID_MAPPER_SUCCESS"
            /\ Allocated(Reinsert(t).M, PointersOf(S, pc[t], loc[t])) = {}
            /\ Reinsert(t).M.nfree = 2
            /\ ~Reinsert(t).M.badfree
            /\ Reinsert(t).M.ht = S.ht
            /\ View(Reinsert(t).M, loc[t].tbl) = View(S, loc[t].tbl)
            /\ GetOf(Reinsert(t).M, t) = GetOf(S, t)

\* thread A lost the race for a name of ht_pwnam to an entry that holds
\* another id than the one A wrote: after the return of A a get answers
\* with the id of the other thread
C24_Witness ==
    \E t \in Threads, vB \in Ids :
        /\ LostRace(t)
        /\ loc[t].tbl = "ht_pwnam"
        /\ vB # ValOf(loc[t])
        /\ heap[loc[t].local_val].u = ValOf(loc[t])
        /\ Reinsert(t).status = "ID_MAPPER_SUCCESS"
        /\ GetOf(Reinsert(t).M, t) = Ok(vB)

\* the threads that took the cell at p out of a table and have not yet
\* updated it
Updaters(p) == {u \in Threads : pc[u] \in {"taken", "freed"} /\ loc[u].local_val = p}

\* C27: a reader that HashTable_Get handed a pointer to an idmap_val reads,
\* under every interleaving with concurrent adds, an idmap_val (and, in
\* namemap_get, a name string) that is still allocated and that no writer
\* is about to modify
C27_NoUseAfterFree ==
    \A t \in Readers :
        /\ IF loc[t].tbl \in FwdTables
           THEN IsVal(S, loc[t].local_val)
           ELSE IsNamedVal(S, loc[t].local_val)
        /\ Updaters(loc[t].local_val) = {}

\* the entry of key in tbl, or the entry an overwriter holds, exists
Cached(tbl, key) == Lookup(S, tbl, key) # {} \/ Overwriters(tbl, key) # {}

\* C29: a key that has been added and that no remove or clear was called
\* for is never reported missing: a get made in any reachable state, also
\* while add(k, ., overwrite=true) calls of other threads are under way,
\* returns ID_MAPPER_SUCCESS or ID_MAPPER_CACHE_EXPIRE
C29_NeverMissing ==
    /\ \A k \in RaceNames :
         Cached("ht_pwnam", k) =>
             idmap_get(S, "ht_pwnam", k, now).status
                 \in {"ID_MAPPER_SUCCESS", "ID_MAPPER_CACHE_EXPIRE"}
    /\ \A k \in RaceIds :
         Cached("ht_pwuid", k) =>
             namemap_get(S, "ht_pwuid", k, 3, now).status
                 \in {"ID_MAPPER_SUCCESS", "ID_MAPPER_CACHE_EXPIRE"}

\* ------------------------------------------- ownership of forward-table keys
\* the calls a thread could make in this state on key k of ht_pwnam, which
\* holds entry e for it: an overwrite keeps the key string and the idmap_val
\* of e and allocates and frees nothing, a removal frees the key string once
KeyOfStored(k, e) ==
    /\ heap[e.pkey] = StrCell(k)
    /\ \A v \in Ids :
         LET r == idmap_add(S, "ht_pwnam", k, v, TRUE, now)
         IN  /\ r.M.nalloc = 0 /\ r.M.nfree = 0
             /\ r.M.ht["ht_pwnam"] = ht["ht_pwnam"]
             /\ r.M.heap[e.pkey] = heap[e.pkey]
             /\ r.M.heap[e.pval] = idmap_val(now, v)
    /\ LET r == idmap_remove(S, "ht_pwnam", k)
       IN  /\ r.M.heap[e.pkey] = FreeCell
           /\ r.M.nalloc = 0 /\ r.M.nfree = 1
           /\ ~r.M.badfree

\* the first insert of key k, which ht_pwnam does not hold, duplicates the
\* key string once, into a cell that was free
KeyOfNew(k) ==
    \A v \in Ids, overwrite \in BOOLEAN :
        LET r == idmap_add(S, "ht_pwnam", k, v, overwrite, now)
        IN  ~r.M.exhausted =>
                /\ r.M.nalloc = 2 /\ r.M.nfree = 0
                /\ Cardinality(Lookup(r.M, "ht_pwnam", k)) = 1
                /\ heap[Stored(r.M, "ht_pwnam", k).pkey] = FreeCell
                /\ r.M.heap[Stored(r.M, "ht_pwnam", k).pkey] = StrCell(k)

\* C26: the key string of a forward entry is duplicated once, at the first
\* insert of the key, and freed exactly once: by idmap_remove, by
\* namemap_clear, or by an overwriting idmap_add whose reinsert finds the
\* key stored again; no interleaving of calls frees it twice; and
\* idmap_add with overwrite on a stored key keeps the stored key string and
\* the stored idmap_val, allocating and freeing nothing
C26_KeyOwnership ==
    /\ ~badfree
    /\ \A k \in RaceNames :
         IF Lookup(S, "ht_pwnam", k) # {}
         THEN KeyOfStored(k, Stored(S, "ht_pwnam", k))
         ELSE KeyOfNew(k)
    /\ LET r == namemap_clear(S)
       IN  /\ \A e \in ht["ht_pwnam"] :
                 heap[e.pkey].kind = "str" /\ r.M.heap[e.pkey] = FreeCell
           /\ r.M.nfree = 2 * Cardinality(ht["ht_pwnam"])
           /\ r.M.ht["ht_pwnam"] = {}
           /\ ~r.M.badfree
    /\ \A t \in Threads :
         (LostRace(t) /\ loc[t].tbl \in FwdTables) =>
             /\ heap[loc[t].buffkey].kind = "str"
             /\ Reinsert(t).M.heap[loc[t].buffkey] = FreeCell
             /\ ~Reinsert(t).M.badfree

\* ht_pwnam holds a key while a thread that took the former entry of that
\* key out to overwrite it stands before its reinsert: the table's key
\* string and the thread's are two cells, each to be freed once
C26_Witness ==
    \E t \in Threads :
        /\ LostRace(t)
        /\ loc[t].tbl = "ht_pwnam"
        /\ Stored(S, "ht_pwnam", KeyOf(loc[t])).pkey # loc[t].buffkey
        /\ heap[loc[t].buffkey].kind = "str"
        /\ namemap_clear(S).M.nfree = 2
        /\ idmap_remove(S, "ht_pwnam", KeyOf(loc[t])).M.nfree = 1
        /\ Reinsert(t).M.nfree = 2

\* ------------------------------------------- the two writes of a propagation
\* SpecPropagate: a thread runs uidmap_add(key, val, propagate = 1,
\* overwrite) as its two writes, idmap_add on ht_pwnam and then namemap_add
\* on ht_pwuid, one writer at a time; between the two writes and between
\* calls the other threads read both tables with uidmap_get and
\* unamemap_get.  Between calls entries are removed and the clock
\* advances.  No fault is injected.
\* idmap_add has returned r1 to thread t; the call is taken only when the
\* cells of the model suffice for both writes
FirstWritten(t, key, val, overwrite, r1) ==
    /\ ~uidmap_add_rc2(r1, key, val, TRUE, overwrite, now).M.exhausted
    /\ Return(r1.M)
    /\ pc' = [pc EXCEPT ![t] = "primary"]
    /\ loc' = [loc EXCEPT ![t] =
                  [NoCall EXCEPT !.op = "add", !.name = key, !.id = val,
                                 !.overwrite = overwrite, !.status = r1.status,
                                 !.absent = Uncached("ht_pwnam", "ht_pwuid", key, val)]]

\* rc1 = idmap_add(ht_pwnam, key, val, overwrite)
UidmapAddFirst(t) ==
    /\ \A u \in Threads : pc[u] = "idle"
    /\ ~aborted
    /\ \E key \in Names, val \in Ids, overwrite \in BOOLEAN :
         FirstWritten(t, key, val, overwrite,
                      idmap_add(S, "ht_pwnam", key, val, overwrite, now))

\* uidmap_add has returned r to thread t
SecondWritten(t, r) ==
    /\ Return(r.M)
    /\ pc' = [pc EXCEPT ![t] = "idle"]
    /\ loc' = [loc EXCEPT ![t] = [NoCall EXCEPT !.status = r.status]]

\* what thread t, which has made its first write, returns from uidmap_add
SecondOf(t) ==
    uidmap_add_rc2([M |-> S, status |-> loc[t].status],
                   loc[t].name, loc[t].id, TRUE, loc[t].overwrite, now)

\* rc2 = namemap_add(ht_pwuid, val, key, overwrite) and the return
UidmapAddSecond(t) ==
    /\ pc[t] = "primary"
    /\ SecondWritten(t, SecondOf(t))

\* the threads between the two writes of uidmap_add
Halfway == {t \in Threads : pc[t] = "primary"}

NextPropagate ==
    \/ \E t \in Threads : UidmapAddFirst(t)
    \/ \E t \in Threads : UidmapAddSecond(t)
    \/ IdmapGet("ht_pwnam", Names)
    \/ NamemapGet("ht_pwuid", Ids)
    \/ Halfway = {} /\ IdmapRemove("ht_pwnam", Names)
    \/ Halfway = {} /\ NamemapRemove("ht_pwuid", Ids)
    \/ Halfway = {} /\ Tick

SpecPropagate == Init /\ [][NextPropagate]_vars

\* C25 as stated: a reader between the two writes of uidmap_add(n, i,
\* propagate, overwrite) can get i from uidmap_get(n) while unamemap_get(i)
\* does not yet return n; and once the call has returned with no other
\* writer, uidmap_get(n) returns i and unamemap_get(i) returns n, whatever
\* the overwrite flag and the tables before the call
C25_AgreeAfterReturn ==
    \A t \in Halfway :
        /\ (loc[t].overwrite \/ loc[t].absent) =>
               Out(uidmap_get(S, loc[t].name, now)) = Ok(loc[t].id)
        /\ SucceededWithRoundTrip(SecondOf(t), "ht_pwnam", "ht_pwuid",
                                  loc[t].name, loc[t].id)

\* C25 amended: between the two writes of uidmap_add(n, i, propagate,
\* overwrite), with overwrite set or neither n nor i cached before the
\* call, uidmap_get(n) returns i whatever ht_pwuid holds for i; and once
\* such a call has returned with no other writer, uidmap_get(n) returns i
\* and unamemap_get(i) returns n
C25_SkewThenAgree ==
    \A t \in Halfway :
        (loc[t].overwrite \/ loc[t].absent) =>
            /\ Out(uidmap_get(S, loc[t].name, now)) = Ok(loc[t].id)
            /\ SecondOf(t).status = "ID_MAPPER_SUCCESS"
            /\ RoundTrip(SecondOf(t), "ht_pwnam", "ht_pwuid", loc[t].name, loc[t].id)

\* a thread is between the two writes of an overwriting uidmap_add(n, i)
\* for an id that ht_pwuid holds with another name: uidmap_get(n) returns i
\* while unamemap_get(i) returns the other name, and after the second write
\* unamemap_get(i) returns n
C25_Witness ==
    \E t \in Halfway :
        /\ loc[t].overwrite
        /\ Out(uidmap_get(S, loc[t].name, now)) = Ok(loc[t].id)
        /\ \E m \in Names \ {loc[t].name} :
               Out(unamemap_get(S, loc[t].id, 3, now)) = Ok(m)
        /\ RoundTrip(SecondOf(t), "ht_pwnam", "ht_pwuid", loc[t].name, loc[t].id)

\* ----------------------------------------- the reciprocal write after a failure
\* the wrapper that left r after its primary write left r1 with an error
\* made the reciprocal write all the same: it leaves the state and the
\* status r2 of that write, and returns the status of the primary write
WrittenAfterFailure(r, r1, r2) ==
    (r1.status # "ID_MAPPER_SUCCESS" /\ ~r1.M.aborted) =>
        /\ r.M = r2.M
        /\ r.rc1 = r1.status
        /\ r.rc2 = r2.status
        /\ r.status = r1.status

\* C31: in uidmap_add, unamemap_add and gidmap_add with propagate set, and
\* in gnamemap_add, the write to the second table is issued also when the
\* write to the first table returned an error, so that a call that returns
\* an error can have modified the reciprocal table
C31_ReciprocalAfterFailure ==
    \A f \in Faults, n \in FaultNames, i \in Ids, ow \in BOOLEAN :
        /\ WrittenAfterFailure(uidmap_add(Mach(f[1], f[2]), n, i, TRUE, ow, now),
                               Fwd1(f, "ht_pwnam", n, i, ow),
                               Rev2(Fwd1(f, "ht_pwnam", n, i, ow), "ht_pwuid", n, i, ow))
        /\ WrittenAfterFailure(unamemap_add(Mach(f[1], f[2]), i, n, TRUE, ow, now),
                               Rev1(f, "ht_pwuid", n, i, ow),
                               Fwd2(Rev1(f, "ht_pwuid", n, i, ow), "ht_pwnam", n, i, ow))
        /\ WrittenAfterFailure(gidmap_add(Mach(f[1], f[2]), n, i, TRUE, ow, now),
                               Fwd1(f, "ht_grnam", n, i, ow),
                               Rev2(Fwd1(f, "ht_grnam", n, i, ow), "ht_grgid", n, i, ow))
        /\ WrittenAfterFailure(gnamemap_add(Mach(f[1], f[2]), i, n, ow, now),
                               Rev1(f, "ht_grgid", n, i, ow),
                               Fwd2(Rev1(f, "ht_grgid", n, i, ow), "ht_grnam", n, i, ow))

\* on tables that hold entries, a uidmap_add whose write to ht_pwnam fails
\* in the store returns the error and has stored in ht_pwuid an id that was
\* not there; and an unamemap_add whose write to ht_pwuid fails has stored
\* a name in ht_pwnam
C31_Witness ==
    /\ S.ht["ht_pwuid"] # {}
    /\ \E n \in FaultNames, i \in Ids, ow \in BOOLEAN :
         LET r == uidmap_add(Mach(0, 1), n, i, TRUE, ow, now)
         IN  /\ ~r.M.aborted
             /\ r.status = "ID_MAPPER_INSERT_MALLOC_ERROR"
             /\ r.rc2 = "ID_MAPPER_SUCCESS"
             /\ Lookup(S, "ht_pwuid", i) = {}
             /\ Out(unamemap_get(r.M, i, 3, now)) = Ok(n)
             /\ Lookup(r.M, "ht_pwnam", n) = {}
    /\ \E n \in FaultNames, i \in Ids, ow \in BOOLEAN :
         LET r == unamemap_add(Mach(0, 1), i, n, TRUE, ow, now)
         IN  /\ ~r.M.aborted
             /\ r.status = "ID_MAPPER_INSERT_MALLOC_ERROR"
             /\ Lookup(S, "ht_pwnam", n) = {}
             /\ Out(uidmap_get(r.M, n, now)) = Ok(i)
             /\ View(r.M, "ht_pwnam") # View(S, "ht_pwnam")

====
